---- MODULE Spec2Model ----
(***************************************************************************)
(* State-machine model of the in-memory cache driver of dg-cache           *)
(* (drivers/memory): the item map, the LRU list, the key->node map, the    *)
(* tag index and the metrics recorder, with one action per public method.  *)
(* Every public method holds d.mu for its whole body, so each method is    *)
(* one atomic action and an interleaving of concurrent callers is a        *)
(* sequence of actions.                                                    *)
(***************************************************************************)
EXTENDS Integers, Sequences, FiniteSets, TLC

(***************************************************************************)
(* Bounds of the model.                                                    *)
(***************************************************************************)
MaxTime == 2        \* the clock runs 0..MaxTime
MaxStale == 1       \* LRU nodes beyond max_items (unlimited: beyond those d.nodes maps)
MaxCounter == 1     \* largest counter value Increment may store
MaxOps == 3         \* cap on each monotone metrics counter
MaxViews == 2       \* taggedCache objects a caller holds at a time
MaxCap == 4         \* largest backing array of a tag slice
MaxClock == 4       \* the clock of the breaker scenarios runs 0..MaxClock
MaxThreshold == 2   \* largest failure_threshold of a breaker
MaxTimeout == 1     \* largest reset timeout of a breaker
MaxFails == 3       \* cap on the failures reported in a row
MaxCalls == 3       \* cap on the calls that reach the wrapped store
MaxCallers == 2     \* goroutines calling through the CircuitBreakerDriver
MaxThreads == 2     \* goroutines contending for d.mu
MaxLockCalls == 2   \* calls each of those goroutines makes
MaxList == 4        \* nodes in a list used on its own

KeySeq == <<"k1", "k2", "k3">>
Keys == {"k1", "k2", "k3"}
Keys2 == {"k1", "k2"}
TagNames == {"t1", "t2"}
TTLs == {0, 1}

Nil == 0            \* the nil *lruNode, the nil slice's array
NoMetrics == [nil |-> TRUE]   \* d.metrics == nil (enable_metrics = false)
NotFound == "ErrKeyNotFound"
NoErr == "nil"

EmptyMap == [x \in {} |-> 0]
MapPut(m, k, v) == [x \in (DOMAIN m) \cup {k} |-> IF x = k THEN v ELSE m[x]]
MapDel(m, k) == [x \in (DOMAIN m) \ {k} |-> m[x]]
Range(f) == {f[x] : x \in DOMAIN f}
Min(S) == CHOOSE x \in S : \A y \in S : x <= y

\* interface{} values: a Go string, an int64 (what Increment stores)
StringV(s) == [t |-> "string", s |-> s]
Int64V(n) == [t |-> "int64", n |-> n]
PutValues == {StringV("a"), StringV("bb")}

VARIABLES
    d,          \* the *Driver: items, lru, nodes, tags, keyTags, config, metrics
    heap,       \* backing arrays of the []string tag slices
    views,      \* taggedCache objects held by callers: slot -> t.tags
    now,        \* time.Now()
    hist,       \* history of the calls (not program state)
    b,          \* the *ThresholdBreaker
    calls,      \* where each caller stands inside a CircuitBreakerDriver method
    store,      \* the cache.Driver the CircuitBreakerDriver wraps
    trace,      \* the last breaker or wrapper event (not program state)
    mu,         \* d.mu (b.mu in SpecRace): the goroutine holding it, Nil when free
    threads,    \* where each goroutine stands inside the methods it called
    bg          \* d.ticker, d.done, the cleanup goroutine and the caller of Close

vars == <<d, heap, views, now, hist, b, calls, store, trace, mu, threads, bg>>
\* the lock and the goroutines; a method taken as one atomic action holds
\* d.mu from its first to its last statement and leaves both as they were
lvars == <<mu, threads>>
\* what a method of the memory driver never touches
rvars == <<b, calls, store, trace, bg>>

(***************************************************************************)
(* []string slices: a header (array, len) over a backing array whose       *)
(* length is the capacity.                                                 *)
(***************************************************************************)
NilSlice == [arr |-> Nil, len |-> 0]
sliceCap(h, s) == IF s.arr = Nil THEN 0 ELSE Len(h[s.arr])
sliceElems(h, s) == IF s.arr = Nil THEN <<>> ELSE SubSeq(h[s.arr], 1, s.len)

\* the capacity append gives a full []string that must hold one more
\* element: it doubles (1, 2, 4, 8: 16-byte elements fill a size class)
growCap(oldCap) == IF oldCap = 0 THEN 1 ELSE 2 * oldCap

\* append(s, x): in place while there is capacity, so that two appends to
\* the same slice write the same slot; into a new array otherwise
append(h, s, x) ==
    IF s.len < sliceCap(h, s)
    THEN [heap |-> [h EXCEPT ![s.arr][s.len + 1] = x],
          slice |-> [arr |-> s.arr, len |-> s.len + 1]]
    ELSE [heap |-> Append(h, [i \in 1..growCap(sliceCap(h, s)) |->
                                IF i <= s.len THEN h[s.arr][i]
                                ELSE IF i = s.len + 1 THEN x ELSE ""]),
          slice |-> [arr |-> Len(h) + 1, len |-> s.len + 1]]

\* a variadic argument list: nil when empty, a fresh full array otherwise
variadic(h, list) ==
    IF list = <<>> THEN [heap |-> h, slice |-> NilSlice]
    ELSE [heap |-> Append(h, list), slice |-> [arr |-> Len(h) + 1, len |-> Len(list)]]

(***************************************************************************)
(* lru.go                                                                  *)
(***************************************************************************)
newLRUList == [head |-> Nil, tail |-> Nil, size |-> 0, mem |-> EmptyMap]

remove_KeepsTail(l, node) ==
    LET n == l.mem[node]
        m1 == IF n.prev # Nil THEN [l.mem EXCEPT ![n.prev].next = n.next] ELSE l.mem
        h1 == IF n.prev # Nil THEN l.head ELSE n.next
        m2 == IF n.next # Nil THEN [m1 EXCEPT ![n.next].prev = n.prev] ELSE m1
    IN [head |-> h1, tail |-> l.tail, size |-> l.size - 1, mem |-> m2]

remove(l, node) ==
    LET n == l.mem[node]
        m1 == IF n.prev # Nil THEN [l.mem EXCEPT ![n.prev].next = n.next] ELSE l.mem
        h1 == IF n.prev # Nil THEN l.head ELSE n.next
        m2 == IF n.next # Nil THEN [m1 EXCEPT ![n.next].prev = n.prev] ELSE m1
        t1 == IF n.next # Nil THEN l.tail ELSE n.prev
    IN [head |-> h1, tail |-> t1, size |-> l.size - 1, mem |-> m2]

addToFrontNode(l, node) ==
    IF l.head = Nil
    THEN [head |-> node, tail |-> node, size |-> l.size + 1,
          mem |-> [l.mem EXCEPT ![node].prev = Nil, ![node].next = Nil]]
    ELSE [head |-> node, tail |-> l.tail, size |-> l.size + 1,
          mem |-> [l.mem EXCEPT ![node].next = l.head, ![node].prev = Nil,
                                ![l.head].prev = node]]

moveToFront(l, node) ==
    IF node = l.head THEN l ELSE addToFrontNode(remove(l, node), node)

\* &lruNode{key: key}: a fresh object, here the smallest unused identity
newNode(l) == Min((1..(Cardinality(DOMAIN l.mem) + 1)) \ DOMAIN l.mem)

addToFront(l, key) ==
    LET node == newNode(l)
        l1 == [l EXCEPT !.mem = MapPut(l.mem, node,
                                      [key |-> key, prev |-> Nil, next |-> Nil])]
    IN [l |-> addToFrontNode(l1, node), node |-> node]

removeLast_Head(l) ==
    IF l.tail = Nil THEN [l |-> l, key |-> ""]
    ELSE [l |-> remove(l, l.head), key |-> l.mem[l.head].key]

removeLast(l) ==
    IF l.tail = Nil THEN [l |-> l, key |-> ""]
    ELSE [l |-> remove(l, l.tail), key |-> l.mem[l.tail].key]

clear(l) == [l EXCEPT !.head = Nil, !.tail = Nil, !.size = 0]

\* the keys from head to tail, following next (at most n steps)
RECURSIVE walkNext(_, _, _)
walkNext(l, node, n) ==
    IF node = Nil \/ n = 0 THEN <<>>
    ELSE <<node>> \o walkNext(l, l.mem[node].next, n - 1)
listNodes(l) == walkNext(l, l.head, Cardinality(DOMAIN l.mem))
listKeys(l) == [i \in 1..Len(listNodes(l)) |-> l.mem[listNodes(l)[i]].key]

\* the nodes from tail to head, following prev (at most n steps)
RECURSIVE walkPrev(_, _, _)
walkPrev(l, node, n) ==
    IF node = Nil \/ n = 0 THEN <<>>
    ELSE <<node>> \o walkPrev(l, l.mem[node].prev, n - 1)
listNodesBack(l) == walkPrev(l, l.tail, Cardinality(DOMAIN l.mem))

(***************************************************************************)
(* metrics.go                                                              *)
(***************************************************************************)
newMetrics == [hits |-> 0, misses |-> 0, sets |-> 0, deletes |-> 0,
               evictions |-> 0, itemCount |-> 0, bytesUsed |-> 0]

RecordHit(m) == [m EXCEPT !.hits = @ + 1]
RecordMiss_AsHit(m) == [m EXCEPT !.hits = @ + 1]
RecordMiss(m) == [m EXCEPT !.misses = @ + 1]
RecordSet(m, bytes) ==
    [m EXCEPT !.sets = @ + 1, !.bytesUsed = @ + bytes, !.itemCount = @ + 1]
RecordUpdate(m, oldBytes, newBytes) ==
    [m EXCEPT !.sets = @ + 1, !.bytesUsed = @ - oldBytes + newBytes]
RecordDelete(m, bytes) ==
    [m EXCEPT !.deletes = @ + 1, !.bytesUsed = @ - bytes, !.itemCount = @ - 1]
RecordEviction(m, bytes) ==
    [m EXCEPT !.evictions = @ + 1, !.bytesUsed = @ - bytes, !.itemCount = @ - 1]

\* float64(a) / float64(b) for small counters, kept as the fraction in
\* lowest terms that the quotient is the nearest float64 to
RECURSIVE gcd(_, _)
gcd(a, c) == IF c = 0 THEN a ELSE gcd(c, a % c)
Quotient(a, c) == [num |-> a \div gcd(a, c), den |-> c \div gcd(a, c)]
ZeroRate == [num |-> 0, den |-> 1]
\* Metrics.Stats: the HitRate field of the snapshot
HitRate(m) ==
    LET total == m.hits + m.misses
    IN IF total > 0 THEN Quotient(m.hits, total) ELSE ZeroRate

\* Driver.Stats: the zero Stats when metrics are disabled
Stats(dd) == IF dd.metrics = NoMetrics THEN newMetrics ELSE dd.metrics

(***************************************************************************)
(* config.go: Item.IsExpired.  ExpiresAt = 0 is the zero time.             *)
(***************************************************************************)
IsExpired_AtDeadline(item) ==
    IF item.ExpiresAt = 0 THEN FALSE ELSE now >= item.ExpiresAt

IsExpired(item) ==
    IF item.ExpiresAt = 0 THEN FALSE ELSE now > item.ExpiresAt

(***************************************************************************)
(* tag_helpers.go                                                          *)
(***************************************************************************)
RECURSIVE removeFromTags(_, _, _)
removeFromTags(tagMap, tagSeq, key) ==
    IF tagSeq = <<>> THEN tagMap
    ELSE LET tag == Head(tagSeq)
             t1 == IF tag \in DOMAIN tagMap
                   THEN IF tagMap[tag] \ {key} = {}
                        THEN MapDel(tagMap, tag)
                        ELSE [tagMap EXCEPT ![tag] = @ \ {key}]
                   ELSE tagMap
         IN removeFromTags(t1, Tail(tagSeq), key)

removeKeyTags(dd, key) ==
    IF key \in DOMAIN dd.keyTags
    THEN [dd EXCEPT !.tags = removeFromTags(dd.tags, sliceElems(heap, dd.keyTags[key]), key),
                    !.keyTags = MapDel(dd.keyTags, key)]
    ELSE dd

RECURSIVE addToTags(_, _, _)
addToTags(tagMap, tagSeq, key) ==
    IF tagSeq = <<>> THEN tagMap
    ELSE LET tag == Head(tagSeq)
             t1 == IF tag \in DOMAIN tagMap
                   THEN [tagMap EXCEPT ![tag] = @ \cup {key}]
                   ELSE MapPut(tagMap, tag, {key})
         IN addToTags(t1, Tail(tagSeq), key)

\* tags is the slice t.tags itself: d.keyTags[key] = tags stores the header
addKeyTags(dd, key, tags) ==
    IF tags.len = 0 THEN dd
    ELSE LET d1 == removeKeyTags(dd, key)
         IN [d1 EXCEPT !.keyTags = MapPut(d1.keyTags, key, tags),
                       !.tags = addToTags(d1.tags, sliceElems(heap, tags), key)]

(***************************************************************************)
(* memory.go: the unlocked helpers                                         *)
(***************************************************************************)
prefixKey(dd, key) == IF dd.prefix = "" THEN key ELSE <<dd.prefix, ":", key>>

estimateSize(value) ==
    CASE value.t = "string" -> Len(value.s)
      [] value.t = "int64" -> 8
      [] value.t = "bool" -> 1
      [] OTHER -> 64

RECURSIVE sumSizes(_, _)
sumSizes(items, ks) ==
    IF ks = {} THEN 0
    ELSE LET k == CHOOSE x \in ks : TRUE
         IN estimateSize(items[k].Value) + sumSizes(items, ks \ {k})

\* currentBytes as evictIfNeeded computes it
currentBytes(dd) ==
    IF dd.metrics # NoMetrics THEN dd.metrics.bytesUsed
    ELSE sumSizes(dd.items, DOMAIN dd.items)

\* returns the driver, whether an item was evicted, and the key it removed
evictNode(d1, r) ==
    IF r.key = "" THEN [d |-> d1, ok |-> FALSE, key |-> ""]
    ELSE IF r.key \in DOMAIN d1.items
         THEN LET size == estimateSize(d1.items[r.key].Value)
                  d2 == IF d1.metrics # NoMetrics
                        THEN [d1 EXCEPT !.metrics = RecordEviction(@, size)]
                        ELSE d1
                  d3 == removeKeyTags(d2, r.key)
              IN [d |-> [d3 EXCEPT !.items = MapDel(@, r.key),
                                   !.nodes = MapDel(@, r.key)],
                  ok |-> TRUE, key |-> r.key]
         ELSE [d |-> d1, ok |-> FALSE, key |-> ""]

evictLast(dd, r) == evictNode([dd EXCEPT !.lru = r.l], r)

evictOne(dd) ==
    IF dd.config.EvictionPolicy = "lru"
    THEN evictLast(dd, removeLast(dd.lru))
    ELSE [d |-> dd, ok |-> FALSE, key |-> ""]

\* the for loop of evictIfNeeded; ev collects the evicted keys in order
RECURSIVE evictLoop(_, _, _), evictStep(_, _, _)
evictLoop(dd, newItemSize, ev) ==
    IF currentBytes(dd) + newItemSize > dd.config.MaxBytes
    THEN evictStep(evictOne(dd), newItemSize, ev)
    ELSE [d |-> dd, ev |-> ev]

evictStep(r, newItemSize, ev) ==
    IF ~r.ok THEN [d |-> r.d, ev |-> ev]
    ELSE evictLoop(r.d, newItemSize, Append(ev, r.key))

evictBytes(r1, newItemSize) ==
    LET ev1 == IF r1.ok THEN <<r1.key>> ELSE <<>>
    IN IF r1.d.config.MaxBytes > 0
       THEN evictLoop(r1.d, newItemSize, ev1)
       ELSE [d |-> r1.d, ev |-> ev1]

evictIfNeeded(dd, newItemSize) ==
    evictBytes(IF dd.config.MaxItems > 0
                  /\ Cardinality(DOMAIN dd.items) >= dd.config.MaxItems
               THEN evictOne(dd)
               ELSE [d |-> dd, ok |-> FALSE, key |-> ""], newItemSize)

\* item := &cache.Item{...}; if ttl > 0 { item.ExpiresAt = time.Now().Add(ttl) }
newItem_NoDeadline(key, value, ttl) ==
    [Key |-> key, Value |-> value, ExpiresAt |-> 0]

newItem(key, value, ttl) ==
    [Key |-> key, Value |-> value, ExpiresAt |-> IF ttl > 0 THEN now + ttl ELSE 0]

\* returns the driver and the keys evicted on the way
putItem(r, prefixedKey, item, newSize) ==
    LET d1 == r.d
        d2 == IF d1.metrics # NoMetrics
              THEN IF prefixedKey \in DOMAIN d1.items
                   THEN [d1 EXCEPT !.metrics = RecordUpdate(@,
                             estimateSize(d1.items[prefixedKey].Value), newSize)]
                   ELSE [d1 EXCEPT !.metrics = RecordSet(@, newSize)]
              ELSE d1
        d3 == [d2 EXCEPT !.items = MapPut(@, prefixedKey, item)]
        d4 == IF prefixedKey \in DOMAIN d3.nodes
              THEN [d3 EXCEPT !.lru = moveToFront(@, d3.nodes[prefixedKey])]
              ELSE LET a == addToFront(d3.lru, prefixedKey)
                   IN [d3 EXCEPT !.lru = a.l, !.nodes = MapPut(@, prefixedKey, a.node)]
    IN [d |-> d4, ev |-> r.ev]

\* netSizeChange of put: the new size, less the old one on a replacement
sizeChange(dd, key, value) ==
    IF prefixKey(dd, key) \in DOMAIN dd.items
    THEN estimateSize(value) - estimateSize(dd.items[prefixKey(dd, key)].Value)
    ELSE estimateSize(value)

put(dd, key, value, ttl) ==
    LET prefixedKey == prefixKey(dd, key)
        newSize == estimateSize(value)
        netSizeChange == IF prefixedKey \in DOMAIN dd.items
                         THEN newSize - estimateSize(dd.items[prefixedKey].Value)
                         ELSE newSize
    IN putItem(IF netSizeChange > 0 THEN evictIfNeeded(dd, netSizeChange)
               ELSE [d |-> dd, ev |-> <<>>],
               prefixedKey, newItem(key, value, ttl), newSize)

forget_RecordsDelete(dd, key) ==
    LET prefixedKey == prefixKey(dd, key)
        d1 == removeKeyTags(dd, prefixedKey)
    IN [d1 EXCEPT !.items = MapDel(@, prefixedKey), !.nodes = MapDel(@, prefixedKey),
                  !.metrics = IF @ = NoMetrics THEN @ ELSE RecordDelete(@, 0)]

forget(dd, key) ==
    LET prefixedKey == prefixKey(dd, key)
        d1 == removeKeyTags(dd, prefixedKey)
    IN [d1 EXCEPT !.items = MapDel(@, prefixedKey), !.nodes = MapDel(@, prefixedKey)]

(***************************************************************************)
(* memory.go, tagged.go: the public methods, as functions of the driver    *)
(***************************************************************************)
NilValue == [t |-> "nil"]

Get(dd, key) ==
    LET prefixedKey == prefixKey(dd, key)
    IN IF prefixedKey \notin DOMAIN dd.items \/ IsExpired(dd.items[prefixedKey])
       THEN [d |-> IF dd.metrics # NoMetrics
                   THEN [dd EXCEPT !.metrics = RecordMiss(@)] ELSE dd,
             val |-> NilValue, err |-> NotFound]
       ELSE LET d1 == IF prefixedKey \in DOMAIN dd.nodes
                      THEN [dd EXCEPT !.lru = moveToFront(@, dd.nodes[prefixedKey])]
                      ELSE dd
                d2 == IF d1.metrics # NoMetrics
                      THEN [d1 EXCEPT !.metrics = RecordHit(@)] ELSE d1
            IN [d |-> d2, val |-> dd.items[prefixedKey].Value, err |-> NoErr]

GetMultiple(dd, keys) ==
    LET found == {k \in keys : /\ prefixKey(dd, k) \in DOMAIN dd.items
                               /\ ~IsExpired(dd.items[prefixKey(dd, k)])}
    IN [k \in found |-> dd.items[prefixKey(dd, k)].Value]

\* items is the map argument; every entry gets the same expiresAt
PutMultiple(dd, items, ttl) ==
    LET expiresAt == IF ttl > 0 THEN now + ttl ELSE 0
        written == {prefixKey(dd, k) : k \in DOMAIN items}
    IN [dd EXCEPT !.items =
          [pk \in (DOMAIN dd.items) \cup written |->
              IF pk \in written
              THEN LET k == CHOOSE x \in DOMAIN items : prefixKey(dd, x) = pk
                   IN [Key |-> k, Value |-> items[k], ExpiresAt |-> expiresAt]
              ELSE dd.items[pk]]]

Increment_KeepsExpired(dd, key, value) ==
    LET prefixedKey == prefixKey(dd, key)
        current == IF /\ prefixedKey \in DOMAIN dd.items
                      /\ dd.items[prefixedKey].Value.t = "int64"
                   THEN dd.items[prefixedKey].Value.n
                   ELSE 0
        newValue == current + value
    IN [d |-> [dd EXCEPT !.items = MapPut(@, prefixedKey,
                    [Key |-> key, Value |-> Int64V(newValue), ExpiresAt |-> 0])],
        val |-> newValue]

Increment(dd, key, value) ==
    LET prefixedKey == prefixKey(dd, key)
        current == IF /\ prefixedKey \in DOMAIN dd.items
                      /\ ~IsExpired(dd.items[prefixedKey])
                      /\ dd.items[prefixedKey].Value.t = "int64"
                   THEN dd.items[prefixedKey].Value.n
                   ELSE 0
        newValue == current + value
    IN [d |-> [dd EXCEPT !.items = MapPut(@, prefixedKey,
                    [Key |-> key, Value |-> Int64V(newValue), ExpiresAt |-> 0])],
        val |-> newValue]

Decrement(dd, key, value) == Increment(dd, key, 0 - value)

Forever(dd, key, value) == put(dd, key, value, 0)

RECURSIVE ForgetMultiple(_, _)
ForgetMultiple(dd, keys) ==
    IF keys = <<>> THEN dd
    ELSE LET prefixedKey == prefixKey(dd, Head(keys))
             d1 == removeKeyTags(dd, prefixedKey)
         IN ForgetMultiple([d1 EXCEPT !.items = MapDel(@, prefixedKey),
                                      !.nodes = MapDel(@, prefixedKey)],
                           Tail(keys))

Flush_KeepsTags(dd) ==
    [dd EXCEPT !.items = EmptyMap, !.nodes = EmptyMap, !.lru = newLRUList]

Flush(dd) ==
    [dd EXCEPT !.items = EmptyMap, !.nodes = EmptyMap, !.lru = newLRUList,
               !.tags = EmptyMap, !.keyTags = EmptyMap]

Has(dd, key) ==
    IF prefixKey(dd, key) \notin DOMAIN dd.items THEN FALSE
    ELSE ~IsExpired(dd.items[prefixKey(dd, key)])

Missing(dd, key) == ~Has(dd, key)

\* the keys removeExpired deletes: ExpiresAt set and Before(now)
expiredKeys(dd) ==
    {k \in DOMAIN dd.items : dd.items[k].ExpiresAt # 0 /\ dd.items[k].ExpiresAt < now}

\* delete each key of ks: its tags, its item, its nodes entry
RECURSIVE removeKeys(_, _)
removeKeys(dd, ks) ==
    IF ks = {} THEN dd
    ELSE LET key == CHOOSE x \in ks : TRUE
             d1 == removeKeyTags(dd, key)
         IN removeKeys([d1 EXCEPT !.items = MapDel(@, key), !.nodes = MapDel(@, key)],
                       ks \ {key})

removeExpired(dd) == removeKeys(dd, expiredKeys(dd))

\* keysToRemove of FlushTags
keysToRemove(dd, tags) ==
    UNION {dd.tags[tags[i]] : i \in {j \in 1..Len(tags) : tags[j] \in DOMAIN dd.tags}}

FlushTags(dd, tags) == removeKeys(dd, keysToRemove(dd, tags))

\* taggedCache.Put: tags is the view's slice t.tags
taggedPut(dd, tags, key, value, ttl) ==
    LET r == put(dd, key, value, ttl)
    IN [d |-> addKeyTags(r.d, prefixKey(r.d, key), tags), ev |-> r.ev]

\* taggedCache.PutMultiple: order is the order in which range visits the map
RECURSIVE taggedPutMultiple(_, _, _, _, _, _)
taggedPutMultiple(dd, tags, items, order, ttl, ev) ==
    IF order = <<>> THEN [d |-> dd, ev |-> ev]
    ELSE LET r == taggedPut(dd, tags, Head(order), items[Head(order)], ttl)
         IN taggedPutMultiple(r.d, tags, items, Tail(order), ttl, ev \o r.ev)

taggedFlush(dd, tags) == FlushTags(dd, sliceElems(heap, tags))

(***************************************************************************)
(* History of the calls, kept beside the program state to state the        *)
(* contracts: the last value written to each key since it was last         *)
(* removed, the keys ordered by their last Put or successful Get, and the  *)
(* evictions of the last call with the key that was then least recently    *)
(* used, and the key the last call overwrote.                              *)
(***************************************************************************)
SeqWithout(sq, ks) == SelectSeq(sq, LAMBDA x : x \notin ks)
Last(sq) == sq[Len(sq)]

\* the last write to k is still in force: its TTL has not elapsed
HistFresh(k) == hist.written[k].until = 0 \/ now <= hist.written[k].until
NoFlush == [tags |-> <<>>, before |-> EmptyMap]
newHist == [written |-> EmptyMap, order |-> <<>>, ev |-> <<>>, over |-> "",
            tagged |-> EmptyMap, flush |-> NoFlush]

HistWrite(h, k, v, ttl) ==
    [h EXCEPT !.written = MapPut(@, k, [v |-> v, until |-> IF ttl > 0 THEN now + ttl ELSE 0]),
              !.over = IF k \in DOMAIN h.written THEN k ELSE @,
              !.order = <<k>> \o SeqWithout(@, {k})]
HistTouch(h, k) == [h EXCEPT !.order = <<k>> \o SeqWithout(@, {k})]
HistDrop(h, ks) ==
    [h EXCEPT !.written = [k \in (DOMAIN @) \ ks |-> @[k]],
              !.order = SeqWithout(@, ks),
              !.tagged = [k \in (DOMAIN @) \ ks |-> @[k]]]
RECURSIVE HistEvict(_, _)
HistEvict(h, victims) ==
    IF victims = <<>> THEN h
    ELSE HistEvict(
           [HistDrop(h, {Head(victims)}) EXCEPT
              !.ev = Append(@, [victim |-> Head(victims),
                                oldest |-> IF h.order = <<>> THEN "" ELSE Last(h.order)])],
           Tail(victims))
HistCall(h) == [h EXCEPT !.ev = <<>>, !.over = "", !.flush = NoFlush]
\* a put of k through a view: the tags the view holds replace those of k
HistTag(h, k, tags) ==
    IF tags = <<>> THEN h ELSE [h EXCEPT !.tagged = MapPut(@, k, Range(tags))]
\* a flush of tags on dd: the keys then stored, each with the tags it was
\* last put with
HistFlush(h, dd, tags) ==
    [HistDrop(HistCall(h), keysToRemove(dd, tags)) EXCEPT
        !.flush = [tags |-> tags,
                   before |-> [k \in DOMAIN dd.items |->
                                 IF k \in DOMAIN h.tagged THEN h.tagged[k] ELSE {}]]]
HistExpired(h) ==
    {k \in DOMAIN h.written : h.written[k].until # 0 /\ now > h.written[k].until}
RECURSIVE HistWriteAll(_, _, _, _)
HistWriteAll(h, items, order, ttl) ==
    IF order = <<>> THEN h
    ELSE HistWriteAll(HistWrite(h, Head(order), items[Head(order)], ttl),
                      items, Tail(order), ttl)

(***************************************************************************)
(* The garbage collector: an lruNode that is neither in the list nor in    *)
(* d.nodes is unreachable.  Object identities carry no meaning, so the     *)
(* nodes of the list are renamed by their position from the head.          *)
(***************************************************************************)
position(sq, x) == IF x = Nil THEN Nil ELSE CHOOSE i \in 1..Len(sq) : sq[i] = x

collect(dd) ==
    LET l == dd.lru
        ns == listNodes(l)
        inList == {ns[i] : i \in 1..Len(ns)}
        closed == /\ Range(dd.nodes) \subseteq inList
                  /\ l.tail \in inList \cup {Nil}
                  /\ \A n \in inList : /\ l.mem[n].prev \in inList \cup {Nil}
                                       /\ l.mem[n].next \in inList \cup {Nil}
                  /\ Cardinality(inList) = Len(ns)
    IN IF ~closed THEN dd
       ELSE [dd EXCEPT
               !.lru = [head |-> position(ns, l.head), tail |-> position(ns, l.tail),
                        size |-> l.size,
                        mem |-> [i \in 1..Len(ns) |->
                                   [key |-> l.mem[ns[i]].key,
                                    prev |-> position(ns, l.mem[ns[i]].prev),
                                    next |-> position(ns, l.mem[ns[i]].next)]]],
               !.nodes = [k \in DOMAIN dd.nodes |-> position(ns, dd.nodes[k])]]

\* the same for the backing arrays: one that no view and no d.keyTags entry
\* points to is unreachable, and a slot beyond every slice's length holds
\* nothing a read can see.  Arrays are renamed by their first reference.
collectHeap(dd, h, vs) ==
    LET nv == Len(vs)
        refs == [i \in 1..(nv + Len(KeySeq)) |->
                   IF i <= nv THEN vs[i]
                   ELSE IF KeySeq[i - nv] \in DOMAIN dd.keyTags
                        THEN dd.keyTags[KeySeq[i - nv]] ELSE NilSlice]
        firsts == {i \in DOMAIN refs :
                     /\ refs[i].arr # Nil
                     /\ \A j \in 1..(i - 1) : refs[j].arr # refs[i].arr}
        first(a) == CHOOSE i \in firsts : refs[i].arr = a
        name(a) == IF a = Nil THEN Nil
                   ELSE Cardinality({i \in firsts : i <= first(a)})
        old(n) == CHOOSE a \in {refs[i].arr : i \in firsts} : name(a) = n
        seen(a) == CHOOSE n \in 0..Len(h[a]) :
                      /\ \E i \in DOMAIN refs : refs[i].arr = a /\ refs[i].len = n
                      /\ \A i \in DOMAIN refs : refs[i].arr = a => refs[i].len <= n
        rename(sl) == [arr |-> name(sl.arr), len |-> sl.len]
    IN [d |-> [dd EXCEPT !.keyTags = [k \in DOMAIN dd.keyTags |-> rename(dd.keyTags[k])]],
        heap |-> [n \in 1..Cardinality(firsts) |->
                    [i \in 1..Len(h[old(n)]) |->
                        IF i <= seen(old(n)) THEN h[old(n)][i] ELSE ""]],
        views |-> [i \in 1..nv |-> rename(vs[i])]]

\* the bounds of the model, as a guard on the state a call leaves
Fits(dd) ==
    /\ Len(listNodes(dd.lru)) <=
          (IF dd.config.MaxItems > 0 THEN dd.config.MaxItems
           ELSE Cardinality(DOMAIN dd.nodes)) + MaxStale
    /\ dd.metrics # NoMetrics =>
          /\ dd.metrics.hits <= MaxOps
          /\ dd.metrics.misses <= MaxOps
          /\ dd.metrics.sets <= MaxOps

(***************************************************************************)
(* reliability: ThresholdBreaker (breaker.go).  Every method holds b.mu    *)
(* for its whole body.                                                     *)
(***************************************************************************)
StateClosed == "Closed"
StateOpen == "Open"
StateHalfOpen == "HalfOpen"
ErrCircuitOpen == "ErrCircuitOpen"
\* an error of the wrapped store other than ErrKeyNotFound
StoreErr == "db error"
\* time.Time{}: earlier than every time.Now()
ZeroTime == 0 - (MaxClock + MaxTimeout + 1)

NewThresholdBreaker(threshold, timeout) ==
    [state |-> StateClosed, failures |-> 0, failureThreshold |-> threshold,
     resetTimeout |-> timeout, lastFailureTime |-> ZeroTime]

Allow_StaysOpen(bb) ==
    IF bb.state = StateOpen
    THEN IF now - bb.lastFailureTime > bb.resetTimeout
         THEN [b |-> bb, ok |-> TRUE]
         ELSE [b |-> bb, ok |-> FALSE]
    ELSE [b |-> bb, ok |-> TRUE]

Allow(bb) ==
    IF bb.state = StateOpen
    THEN IF now - bb.lastFailureTime > bb.resetTimeout
         THEN [b |-> [bb EXCEPT !.state = StateHalfOpen], ok |-> TRUE]
         ELSE [b |-> bb, ok |-> FALSE]
    ELSE [b |-> bb, ok |-> TRUE]

Success_KeepsCount(bb) ==
    IF bb.state = StateHalfOpen
    THEN [bb EXCEPT !.state = StateClosed, !.failures = 0]
    ELSE bb

Success(bb) ==
    IF bb.state = StateHalfOpen
    THEN [bb EXCEPT !.state = StateClosed, !.failures = 0]
    ELSE IF bb.state = StateClosed
         THEN [bb EXCEPT !.failures = 0]
         ELSE bb

Failure_KeepsTime(bb) ==
    IF bb.state = StateClosed
    THEN IF bb.failures + 1 >= bb.failureThreshold
         THEN [bb EXCEPT !.failures = @ + 1, !.state = StateOpen,
                         !.lastFailureTime = now]
         ELSE [bb EXCEPT !.failures = @ + 1]
    ELSE IF bb.state = StateHalfOpen
         THEN [bb EXCEPT !.state = StateOpen]
         ELSE bb

Failure(bb) ==
    IF bb.state = StateClosed
    THEN IF bb.failures + 1 >= bb.failureThreshold
         THEN [bb EXCEPT !.failures = @ + 1, !.state = StateOpen,
                         !.lastFailureTime = now]
         ELSE [bb EXCEPT !.failures = @ + 1]
    ELSE IF bb.state = StateHalfOpen
         THEN [bb EXCEPT !.state = StateOpen, !.lastFailureTime = now]
         ELSE bb

(***************************************************************************)
(* reliability: CircuitBreakerDriver (driver.go).  It embeds cache.Driver  *)
(* and defines Get, Put, Forget and Flush; every other method of the       *)
(* interface is the embedded driver's own.                                 *)
(***************************************************************************)
Wrapped == {"Get", "Put", "Forget", "Flush"}
Promoted == {"GetMultiple", "PutMultiple", "Increment", "Decrement", "Forever",
             "ForgetMultiple", "Has", "Missing"}
Callers == 1..MaxCallers
\* the errors a call on the wrapped driver may return
Outcomes(op) == IF op = "Get" THEN {NoErr, NotFound, StoreErr} ELSE {NoErr, StoreErr}

report_NotFoundFails(bb, err) ==
    IF err # NoErr THEN Failure(bb) ELSE Success(bb)

report(bb, err) ==
    IF err # NoErr /\ err # NotFound THEN Failure(bb) ELSE Success(bb)

Idle == [at |-> "idle", op |-> "", err |-> NoErr]
NoBreaker == [nil |-> TRUE]
NoTrace == [kind |-> "", who |-> 0, op |-> "", ret |-> NoErr, prev |-> NoBreaker,
            reached |-> 0, at |-> 0, since |-> 0]
\* the failures reported since the last success
Since(err) == IF err # NoErr /\ err # NotFound THEN trace.since + 1 ELSE 0

(***************************************************************************)
(* NewDriver, and the views the callers hold                               *)
(***************************************************************************)
\* the configurations of the scenarios: StoreConfig.Options
CoreConfig == [MaxItems |-> 1, MaxBytes |-> 0, EvictionPolicy |-> "lru", EnableMetrics |-> FALSE]
LRUConfig == [MaxItems |-> 2, MaxBytes |-> 0, EvictionPolicy |-> "lru", EnableMetrics |-> FALSE]
BytesConfig == [MaxItems |-> 0, MaxBytes |-> 3, EvictionPolicy |-> "lru", EnableMetrics |-> TRUE]
MetricsConfig == [MaxItems |-> 1, MaxBytes |-> 0, EvictionPolicy |-> "lru", EnableMetrics |-> TRUE]
DefaultConfig == [MaxItems |-> 0, MaxBytes |-> 0, EvictionPolicy |-> "lru", EnableMetrics |-> FALSE]

NewDriver(config) ==
    [items |-> EmptyMap, lru |-> newLRUList, nodes |-> EmptyMap,
     tags |-> EmptyMap, keyTags |-> EmptyMap, prefix |-> "",
     config |-> config,
     metrics |-> IF config.EnableMetrics THEN newMetrics ELSE NoMetrics]

\* d.Tags(), d.Tags("t1"), d.Tags("t2"), d.Tags("t1", "t2")
FixedHeap == <<<<"t1">>, <<"t2">>, <<"t1", "t2">>>>
FixedViews == <<NilSlice, [arr |-> 1, len |-> 1], [arr |-> 2, len |-> 1],
                [arr |-> 3, len |-> 2]>>

\* no goroutine is inside a method
NoThread == [stack |-> <<>>, locks |-> 0, begun |-> 0]
\* NewDriver: the ticker runs, nothing is in its channel, d.done is open,
\* cleanup() waits in its select and nobody has called Close
NewBackground ==
    [running |-> TRUE, tick |-> 0, closed |-> FALSE, cleanup |-> "select",
     close |-> "idle", late |-> FALSE]

Unlocked ==
    /\ mu = Nil
    /\ threads = [t \in 1..MaxThreads |-> NoThread]
    /\ bg = NewBackground

\* a driver used directly: no breaker, no wrapper
Unwrapped ==
    /\ b = NoBreaker
    /\ calls = [c \in Callers |-> Idle]
    /\ store = [invoked |-> 0]
    /\ trace = NoTrace
    /\ Unlocked

InitWith(driver) ==
    /\ d = driver
    /\ heap = FixedHeap
    /\ views = FixedViews
    /\ now = 0
    /\ hist = newHist
    /\ Unwrapped

Init == InitWith(NewDriver(CoreConfig))

(***************************************************************************)
(* One action per call.  A call that only reads (Has, Missing,             *)
(* GetMultiple) leaves the state as it is; what it returns is the          *)
(* operator of the same name.                                              *)
(***************************************************************************)
Write(c, h) ==
    /\ d' = c.d
    /\ heap' = c.heap
    /\ views' = c.views
    /\ hist' = h

Finish(c, h) ==
    /\ Write(c, h)
    /\ UNCHANGED <<now, rvars, lvars>>

\* a call that leaves d.keyTags as it was leaves every array as reachable as
\* it was
Collected(dd) ==
    IF dd.keyTags = d.keyTags
    THEN [d |-> collect(dd), heap |-> heap, views |-> views]
    ELSE collectHeap(collect(dd), heap, views)

Done(dd, h) ==
    /\ Fits(dd)
    /\ Finish(Collected(dd), h)

\* v := d.Tags(list...): the caller's variable slot holds a new view
DoTags(slot, list) ==
    LET a == variadic(heap, list)
    IN Finish(collectHeap(d, a.heap, [views EXCEPT ![slot] = a.slice]), HistCall(hist))

\* v := w.Tags(tag): the new view's slice is append(w.tags, tag)
DoViewTags(src, dst, tag) ==
    LET a == append(heap, views[src], tag)
    IN /\ sliceCap(a.heap, a.slice) <= MaxCap
       /\ Finish(collectHeap(d, a.heap, [views EXCEPT ![dst] = a.slice]), HistCall(hist))

DoGet(k) ==
    LET r == Get(d, k)
    IN Done(r.d, IF r.err = NoErr THEN HistTouch(HistCall(hist), k) ELSE HistCall(hist))

DoGetMultiple(ks) ==
    /\ GetMultiple(d, ks) \in [DOMAIN GetMultiple(d, ks) -> Range(GetMultiple(d, ks))]
    /\ Done(d, HistCall(hist))

DoPut(k, v, ttl) ==
    LET r == put(d, k, v, ttl)
    IN Done(r.d, HistWrite(HistEvict(HistCall(hist), r.ev), k, v, ttl))

DoForever(k, v) ==
    LET r == Forever(d, k, v)
    IN Done(r.d, HistWrite(HistEvict(HistCall(hist), r.ev), k, v, 0))

RECURSIVE SetToSeq(_)
SetToSeq(S) ==
    IF S = {} THEN <<>>
    ELSE LET x == CHOOSE y \in S : TRUE IN <<x>> \o SetToSeq(S \ {x})

\* the maps a caller passes to PutMultiple: one or two entries
ItemMaps(ks, vs) ==
    UNION {[S -> vs] : S \in {T \in SUBSET ks : Cardinality(T) \in {1, 2}}}
\* the orders in which range may visit a map
Orders(items) ==
    {o \in [1..Cardinality(DOMAIN items) -> DOMAIN items] :
        {o[i] : i \in 1..Len(o)} = DOMAIN items}
KeyLists(ks) == {<<k>> : k \in ks} \cup {<<k1, k2>> : k1 \in ks, k2 \in ks}
\* the tag lists a caller passes to FlushTags
TagLists == {<<t>> : t \in TagNames} \cup {<<"t1", "t2">>}

DoPutMultiple(items, ttl) ==
    Done(PutMultiple(d, items, ttl),
         HistWriteAll(HistCall(hist), items, SetToSeq(DOMAIN items), ttl))

DoIncrement(k, delta) ==
    LET r == Increment(d, k, delta)
    IN /\ r.val <= MaxCounter
       /\ Done(r.d, HistWrite(HistCall(hist), k, Int64V(r.val), 0))

DoDecrement(k, delta) ==
    LET r == Decrement(d, k, delta)
    IN /\ r.val >= 0
       /\ Done(r.d, HistWrite(HistCall(hist), k, Int64V(r.val), 0))

DoForget(k) == Done(forget(d, k), HistDrop(HistCall(hist), {k}))

DoForgetMultiple(ks) ==
    Done(ForgetMultiple(d, ks), HistDrop(HistCall(hist), {ks[i] : i \in 1..Len(ks)}))

DoFlush == Done(Flush(d), HistDrop(HistCall(hist), DOMAIN hist.written))

DoHas(k) ==
    /\ Has(d, k) \in BOOLEAN
    /\ Done(d, HistCall(hist))

DoMissing(k) ==
    /\ Missing(d, k) \in BOOLEAN
    /\ Done(d, HistCall(hist))

DoFlushTags(tags) == Done(FlushTags(d, tags), HistFlush(hist, d, tags))

DoTaggedPut(view, k, v, ttl) ==
    LET r == taggedPut(d, views[view], k, v, ttl)
    IN Done(r.d, HistTag(HistWrite(HistEvict(HistCall(hist), r.ev), k, v, ttl),
                         k, sliceElems(heap, views[view])))

DoTaggedForever(view, k, v) ==
    LET r == taggedPut(d, views[view], k, v, 0)
    IN Done(r.d, HistTag(HistWrite(HistEvict(HistCall(hist), r.ev), k, v, 0),
                         k, sliceElems(heap, views[view])))

RECURSIVE HistTaggedAll(_, _, _, _, _, _)
HistTaggedAll(h, dd, tags, items, order, ttl) ==
    IF order = <<>> THEN h
    ELSE LET r == taggedPut(dd, tags, Head(order), items[Head(order)], ttl)
         IN HistTaggedAll(HistTag(HistWrite(HistEvict(h, r.ev), Head(order),
                                            items[Head(order)], ttl),
                                  Head(order), sliceElems(heap, tags)),
                          r.d, tags, items, Tail(order), ttl)

DoTaggedPutMultiple(view, items, order, ttl) ==
    LET r == taggedPutMultiple(d, views[view], items, order, ttl, <<>>)
    IN Done(r.d, HistTaggedAll(HistCall(hist), d, views[view], items, order, ttl))

DoTaggedFlush(view) ==
    Done(taggedFlush(d, views[view]), HistFlush(hist, d, sliceElems(heap, views[view])))

\* the ticker of cleanup() fires
DoRemoveExpired == Done(removeExpired(d), HistDrop(HistCall(hist), HistExpired(hist)))

\* time passes
Tick ==
    /\ now < MaxTime
    /\ now' = now + 1
    /\ hist' = HistCall(hist)
    /\ UNCHANGED <<d, heap, views, rvars, lvars>>

(***************************************************************************)
(* Spec: every method of the driver, two keys, max_items set.              *)
(***************************************************************************)
Next ==
    \/ \E k \in Keys2 : DoGet(k)
    \/ DoGetMultiple(Keys2)
    \/ \E k \in Keys2, v \in PutValues, ttl \in TTLs : DoPut(k, v, ttl)
    \/ \E k \in Keys2, v \in PutValues : DoForever(k, v)
    \/ \E items \in ItemMaps(Keys2, {StringV("a")}), ttl \in TTLs : DoPutMultiple(items, ttl)
    \/ \E k \in Keys2 : DoIncrement(k, 1)
    \/ \E k \in Keys2 : DoDecrement(k, 1)
    \/ \E k \in Keys2 : DoForget(k)
    \/ \E ks \in KeyLists(Keys2) : DoForgetMultiple(ks)
    \/ DoFlush
    \/ \E k \in Keys2 : DoHas(k)
    \/ \E k \in Keys2 : DoMissing(k)
    \/ DoFlushTags(<<"t1">>)
    \/ \E k \in Keys2, v \in PutValues, ttl \in TTLs : DoTaggedPut(2, k, v, ttl)
    \/ \E k \in Keys2, v \in PutValues : DoTaggedForever(2, k, v)
    \/ \E items \in ItemMaps(Keys2, {StringV("a")}), ttl \in TTLs :
          \E order \in Orders(items) : DoTaggedPutMultiple(2, items, order, ttl)
    \/ DoTaggedFlush(2)
    \/ DoRemoveExpired
    \/ Tick

Spec == Init /\ [][Next]_vars

(***************************************************************************)
(* SpecLRU: Put, Get and Forget on three keys, max_items = 2.              *)
(***************************************************************************)
InitLRU == InitWith(NewDriver(LRUConfig))

NextLRU ==
    \/ \E k \in Keys : DoPut(k, StringV("a"), 0)
    \/ \E k \in Keys : DoGet(k)
    \/ \E k \in Keys : DoForget(k)

SpecLRU == InitLRU /\ [][NextLRU]_vars

(***************************************************************************)
(* SpecList: an lruList used on its own, as lru_test.go does: the caller   *)
(* adds keys (the same key more than once too), and moves or removes nodes *)
(* that are in the list.  Beside the list runs a plain sequence of keys,   *)
(* with the operation last applied and what it returned.                   *)
(***************************************************************************)
newRef == [ref |-> <<>>, op |-> "", ret |-> ""]
SeqDel(sq, i) == [j \in 1..(Len(sq) - 1) |-> IF j < i THEN sq[j] ELSE sq[j + 1]]

\* the list after a call; nodes no longer linked are unreachable
ListDone(l, h) ==
    Finish([d |-> collect([d EXCEPT !.lru = l]), heap |-> heap, views |-> views], h)

ListAddToFront(key) ==
    /\ Len(listNodes(d.lru)) < MaxList
    /\ ListDone(addToFront(d.lru, key).l,
                [ref |-> <<key>> \o hist.ref, op |-> "addToFront", ret |-> ""])

ListMoveToFront(i) ==
    /\ i \in 1..Len(listNodes(d.lru))
    /\ ListDone(moveToFront(d.lru, listNodes(d.lru)[i]),
                [ref |-> <<hist.ref[i]>> \o SeqDel(hist.ref, i),
                 op |-> IF i = 1 THEN "moveToFront head" ELSE "moveToFront", ret |-> ""])

ListRemove(i) ==
    /\ i \in 1..Len(listNodes(d.lru))
    /\ ListDone(remove(d.lru, listNodes(d.lru)[i]),
                [ref |-> SeqDel(hist.ref, i), op |-> "remove", ret |-> ""])

ListRemoveLast ==
    ListDone(removeLast(d.lru).l,
             [ref |-> IF hist.ref = <<>> THEN <<>> ELSE SeqDel(hist.ref, Len(hist.ref)),
              op |-> IF hist.ref = <<>> THEN "removeLast empty" ELSE "removeLast",
              ret |-> removeLast(d.lru).key])

ListClear ==
    ListDone(clear(d.lru), [ref |-> <<>>, op |-> "clear", ret |-> ""])

InitList ==
    /\ d = NewDriver(DefaultConfig)
    /\ heap = FixedHeap
    /\ views = FixedViews
    /\ now = 0
    /\ hist = newRef
    /\ Unwrapped

NextList ==
    \/ \E key \in Keys : ListAddToFront(key)
    \/ \E i \in 1..MaxList : ListMoveToFront(i)
    \/ \E i \in 1..MaxList : ListRemove(i)
    \/ ListRemoveLast
    \/ ListClear

SpecList == InitList /\ [][NextList]_vars

(***************************************************************************)
(* SpecEmpty: Put and Get on three keys, max_items = 2, the values "" and  *)
(* "a".                                                                    *)
(***************************************************************************)
EmptyValues == {StringV(""), StringV("a")}

NextEmpty ==
    \/ \E k \in Keys, v \in EmptyValues : DoPut(k, v, 0)
    \/ \E k \in Keys : DoGet(k)

SpecEmpty == InitLRU /\ [][NextEmpty]_vars

(***************************************************************************)
(* SpecPolicy: Put and Get on three keys, max_items = 2, under each of the *)
(* eviction policies config.go lists.                                      *)
(***************************************************************************)
Policies == {"lru", "lfu", "fifo"}
PolicyConfig(policy) ==
    [MaxItems |-> 2, MaxBytes |-> 0, EvictionPolicy |-> policy, EnableMetrics |-> FALSE]

InitPolicy == \E policy \in Policies : InitWith(NewDriver(PolicyConfig(policy)))

NextPolicy ==
    \/ \E k \in Keys, v \in PutValues : DoPut(k, v, 0)
    \/ \E k \in Keys : DoGet(k)

SpecPolicy == InitPolicy /\ [][NextPolicy]_vars

(***************************************************************************)
(* SpecBytes: Put alone, values of 1 and 2 bytes, max_bytes = 3, metrics   *)
(* enabled.                                                                *)
(***************************************************************************)
InitBytes == InitWith(NewDriver(BytesConfig))

NextBytes == \E k \in Keys, v \in PutValues : DoPut(k, v, 0)

SpecBytes == InitBytes /\ [][NextBytes]_vars

(***************************************************************************)
(* SpecBudget: Put, Get and Forget on three keys, values of 1 and 2 bytes, *)
(* max_bytes = 1 or 3, metrics enabled or not.                             *)
(***************************************************************************)
BudgetBytes == {1, 3}
BudgetConfig(maxBytes, enableMetrics) ==
    [MaxItems |-> 0, MaxBytes |-> maxBytes, EvictionPolicy |-> "lru",
     EnableMetrics |-> enableMetrics]

InitBudget ==
    \E maxBytes \in BudgetBytes, enableMetrics \in BOOLEAN :
        InitWith(NewDriver(BudgetConfig(maxBytes, enableMetrics)))

NextBudget ==
    \/ \E k \in Keys, v \in PutValues : DoPut(k, v, 0)
    \/ \E k \in Keys : DoGet(k)
    \/ \E k \in Keys : DoForget(k)

SpecBudget == InitBudget /\ [][NextBudget]_vars

(***************************************************************************)
(* SpecMetrics: the calls that write or remove, metrics enabled.           *)
(***************************************************************************)
InitMetrics == InitWith(NewDriver(MetricsConfig))

NextMetrics ==
    \/ \E k \in Keys2, ttl \in TTLs : DoPut(k, StringV("a"), ttl)
    \/ DoPutMultiple([k \in Keys2 |-> StringV("a")], 0)
    \/ DoIncrement("k1", 1)
    \/ \E k \in Keys2 : DoForget(k)
    \/ DoForgetMultiple(<<"k1", "k2">>)
    \/ DoFlush
    \/ DoTaggedPut(2, "k1", StringV("a"), 0)
    \/ DoFlushTags(<<"t1">>)
    \/ DoRemoveExpired
    \/ Tick

SpecMetrics == InitMetrics /\ [][NextMetrics]_vars

(***************************************************************************)
(* SpecViews: a caller builds a view with d.Tags("t1"), extends it with    *)
(* v.Tags(...), derives further views from it, and puts one key through    *)
(* them.                                                                   *)
(***************************************************************************)
InitViews ==
    /\ d = NewDriver(DefaultConfig)
    /\ heap = <<>>
    /\ views = [i \in 1..MaxViews |-> NilSlice]
    /\ now = 0
    /\ hist = newHist
    /\ Unwrapped

NextViews ==
    \/ DoTags(1, <<"t1">>)
    \/ DoViewTags(1, 1, "t1")
    \/ \E dst \in 2..MaxViews, tag \in TagNames : DoViewTags(1, dst, tag)
    \/ \E view \in 2..MaxViews : DoTaggedPut(view, "k1", StringV("a"), 0)
    \/ DoPut("k1", StringV("a"), 0)
    \/ DoForget("k1")
    \/ \E tags \in TagLists : DoFlushTags(tags)
    \/ \E view \in 2..MaxViews : DoTaggedFlush(view)
    \/ DoFlush

SpecViews == InitViews /\ [][NextViews]_vars

(***************************************************************************)
(* SpecCounter: counters beside plain values.  Put stores a string or an   *)
(* int64, with or without a TTL; Increment and Decrement count on them.    *)
(***************************************************************************)
CounterValues == {StringV("a"), Int64V(1)}

InitCounter == InitWith(NewDriver(DefaultConfig))

NextCounter ==
    \/ \E k \in Keys2, v \in CounterValues, ttl \in TTLs : DoPut(k, v, ttl)
    \/ \E k \in Keys2 : DoIncrement(k, 1)
    \/ \E k \in Keys2 : DoDecrement(k, 1)
    \/ \E k \in Keys2 : DoGet(k)
    \/ Tick

SpecCounter == InitCounter /\ [][NextCounter]_vars

(***************************************************************************)
(* SpecHits: Put, Get and Forget with metrics on and no size limit, the    *)
(* history counting the Gets of a stored, unexpired key and the others.    *)
(***************************************************************************)
HitsConfig == [MaxItems |-> 0, MaxBytes |-> 0, EvictionPolicy |-> "lru", EnableMetrics |-> TRUE]

newHistGets ==
    [f \in (DOMAIN newHist) \cup {"found", "absent"} |->
        IF f \in DOMAIN newHist THEN newHist[f] ELSE 0]

DoGetCounted(k) ==
    LET r == Get(d, k)
        h == IF r.err = NoErr THEN HistTouch(HistCall(hist), k) ELSE HistCall(hist)
    IN Done(r.d, IF k \in DOMAIN hist.written /\ HistFresh(k)
                 THEN [h EXCEPT !.found = @ + 1]
                 ELSE [h EXCEPT !.absent = @ + 1])

InitHits ==
    /\ d = NewDriver(HitsConfig)
    /\ heap = FixedHeap
    /\ views = FixedViews
    /\ now = 0
    /\ hist = newHistGets
    /\ Unwrapped

NextHits ==
    \/ \E k \in Keys2, ttl \in TTLs : DoPut(k, StringV("a"), ttl)
    \/ \E k \in Keys2 : DoGetCounted(k)
    \/ \E k \in Keys2 : DoForget(k)
    \/ Tick

SpecHits == InitHits /\ [][NextHits]_vars

(***************************************************************************)
(* SpecLock: goroutines inside the tagged methods, statement by statement. *)
(* d.mu is a sync.RWMutex: Lock blocks while any goroutine holds it, the   *)
(* caller included.  A method is its list of statements; a call of         *)
(* another method pushes a frame.                                          *)
(***************************************************************************)
Threads == 1..MaxThreads
LockStmt == [k |-> "lock", m |-> ""]
UnlockStmt == [k |-> "unlock", m |-> ""]
BodyStmt == [k |-> "body", m |-> ""]
CallStmt(m) == [k |-> "call", m |-> m]

\* the statements a method reaches the lock and the store through
Code_PutLocksAgain(m) ==
    CASE m = "taggedCache.Put" -> <<LockStmt, CallStmt("Driver.Put"), UnlockStmt>>
      [] m = "taggedCache.PutMultiple" -> <<LockStmt, BodyStmt, UnlockStmt>>
      [] m = "taggedCache.Forever" -> <<CallStmt("taggedCache.Put")>>
      [] m = "taggedCache.Flush" -> <<CallStmt("Driver.FlushTags")>>
      [] m = "Driver.FlushTags" -> <<LockStmt, BodyStmt, UnlockStmt>>
      [] m = "Driver.Put" -> <<LockStmt, BodyStmt, UnlockStmt>>

Code(m) ==
    CASE m = "taggedCache.Put" -> <<LockStmt, BodyStmt, UnlockStmt>>
      [] m = "taggedCache.PutMultiple" -> <<LockStmt, BodyStmt, UnlockStmt>>
      [] m = "taggedCache.Forever" -> <<CallStmt("taggedCache.Put")>>
      [] m = "taggedCache.Flush" -> <<CallStmt("Driver.FlushTags")>>
      [] m = "Driver.FlushTags" -> <<LockStmt, BodyStmt, UnlockStmt>>
      [] m = "Driver.Put" -> <<LockStmt, BodyStmt, UnlockStmt>>

Methods == {"taggedCache.Put", "taggedCache.PutMultiple", "taggedCache.Forever",
            "taggedCache.Flush", "Driver.FlushTags", "Driver.Put"}

Top(t) == threads[t].stack[Len(threads[t].stack)]
\* the statement goroutine t is about to run
At(t, k) ==
    /\ threads[t].stack # <<>>
    /\ Top(t).pc <= Len(Code(Top(t).m))
    /\ Code(Top(t).m)[Top(t).pc].k = k
Advance(t) ==
    [threads EXCEPT ![t].stack[Len(threads[t].stack)].pc = @ + 1]

\* goroutine t calls method m of the driver or of the view d.Tags("t1")
Begin(t, m) ==
    /\ threads[t].stack = <<>>
    /\ threads[t].begun < MaxLockCalls
    /\ threads' = [threads EXCEPT ![t] = [stack |-> <<[m |-> m, pc |-> 1]>>,
                                          locks |-> 0, begun |-> @.begun + 1]]
    /\ UNCHANGED <<d, heap, views, hist, now, rvars, mu>>

\* d.mu.Lock()
StepLock(t) ==
    /\ At(t, "lock")
    /\ mu = Nil
    /\ mu' = t
    /\ threads' = [Advance(t) EXCEPT ![t].locks = @ + 1]
    /\ UNCHANGED <<d, heap, views, hist, now, rvars>>

\* the deferred d.mu.Unlock()
StepUnlock(t) ==
    /\ At(t, "unlock")
    /\ mu' = Nil
    /\ threads' = Advance(t)
    /\ UNCHANGED <<d, heap, views, hist, now, rvars>>

StepCall(t) ==
    /\ At(t, "call")
    /\ threads' = [threads EXCEPT ![t].stack =
                      Append(@, [m |-> Code(Top(t).m)[Top(t).pc].m, pc |-> 1])]
    /\ UNCHANGED <<d, heap, views, hist, now, rvars, mu>>

\* the statements of the method between Lock and Unlock: d.put and
\* d.addKeyTags, or the two loops of FlushTags
BodyOf(m) ==
    CASE m = "taggedCache.Put" ->
            LET r == taggedPut(d, views[2], "k1", StringV("a"), 0)
            IN [d |-> r.d,
                h |-> HistTag(HistWrite(HistEvict(HistCall(hist), r.ev), "k1", StringV("a"), 0),
                              "k1", sliceElems(heap, views[2]))]
      [] m = "taggedCache.PutMultiple" ->
            LET r == taggedPutMultiple(d, views[2], [k \in {"k2"} |-> StringV("a")],
                                       <<"k2">>, 0, <<>>)
            IN [d |-> r.d,
                h |-> HistTaggedAll(HistCall(hist), d, views[2],
                                    [k \in {"k2"} |-> StringV("a")], <<"k2">>, 0)]
      [] m = "Driver.FlushTags" ->
            [d |-> FlushTags(d, <<"t1">>), h |-> HistFlush(hist, d, <<"t1">>)]
      [] m = "Driver.Put" ->
            LET r == put(d, "k1", StringV("a"), 0)
            IN [d |-> r.d,
                h |-> HistWrite(HistEvict(HistCall(hist), r.ev), "k1", StringV("a"), 0)]

StepBody(t) ==
    /\ At(t, "body")
    /\ Write(Collected(BodyOf(Top(t).m).d), BodyOf(Top(t).m).h)
    /\ threads' = Advance(t)
    /\ UNCHANGED <<now, rvars, mu>>

\* the method returns to its caller
StepReturn(t) ==
    /\ threads[t].stack # <<>>
    /\ Top(t).pc > Len(Code(Top(t).m))
    /\ threads' = [threads EXCEPT ![t].stack =
                      IF Len(@) = 1 THEN <<>>
                      ELSE [SubSeq(@, 1, Len(@) - 1) EXCEPT ![Len(@) - 1].pc = @ + 1]]
    /\ UNCHANGED <<d, heap, views, hist, now, rvars, mu>>

\* the steps of t that wait for nothing; a step of NextLock that moves t
\* past a body is StepBody(t)
Run(t) ==
    \/ StepUnlock(t)
    \/ StepCall(t)
    \/ At(t, "body") /\ threads' = Advance(t)
    \/ StepReturn(t)

InitLock == InitWith(NewDriver(DefaultConfig))

NextLock ==
    \/ \E t \in Threads, m \in Methods : Begin(t, m)
    \/ \E t \in Threads : StepLock(t)
    \/ \E t \in Threads : StepUnlock(t)
    \/ \E t \in Threads : StepCall(t)
    \/ \E t \in Threads : StepBody(t)
    \/ \E t \in Threads : StepReturn(t)

SpecLock == InitLock /\ [][NextLock]_vars

\* the scheduler runs every goroutine that can run, and sync.Mutex hands
\* the lock to a waiter that was passed over (starvation mode)
SpecLockFair ==
    /\ SpecLock
    /\ \A t \in Threads : WF_threads(Run(t)) /\ SF_threads(StepLock(t))

(***************************************************************************)
(* SpecTorn: one goroutine puts k1 through d.Tags("t1") while others call  *)
(* Get, Has, Forget and FlushTags("t1"), statement by statement: d.put     *)
(* and d.addKeyTags are two steps of taggedCache.Put.  Has takes the read  *)
(* lock, which any number of goroutines may hold while nobody holds the    *)
(* write lock; every other method takes the write lock.                    *)
(***************************************************************************)
Outside == [op |-> "", pc |-> 1, begun |-> 0]
TornOps == {"taggedCache.Put", "Driver.Get", "Driver.Has", "Driver.Forget", "Driver.FlushTags"}

\* taggedCache.Put as Driver.Put followed by a separately locked addKeyTags
Stmts_TwoLocks(op) ==
    CASE op = "taggedCache.Put" -> <<"lock", "put", "unlock", "lock", "tag", "unlock">>
      [] op = "Driver.Get" -> <<"lock", "get", "unlock">>
      [] op = "Driver.Has" -> <<"rlock", "has", "runlock">>
      [] op = "Driver.Forget" -> <<"lock", "forget", "unlock">>
      [] op = "Driver.FlushTags" -> <<"lock", "flush", "unlock">>
      [] op = "" -> <<>>

Stmts(op) ==
    CASE op = "taggedCache.Put" -> <<"lock", "put", "tag", "unlock">>
      [] op = "Driver.Get" -> <<"lock", "get", "unlock">>
      [] op = "Driver.Has" -> <<"rlock", "has", "runlock">>
      [] op = "Driver.Forget" -> <<"lock", "forget", "unlock">>
      [] op = "Driver.FlushTags" -> <<"lock", "flush", "unlock">>
      [] op = "" -> <<>>

\* the statement goroutine t is about to run
Stmt(t) ==
    IF threads[t].pc <= Len(Stmts(threads[t].op)) THEN Stmts(threads[t].op)[threads[t].pc]
    ELSE "return"
\* the goroutines holding the read lock
Readers == {t \in Threads : Stmt(t) \in {"has", "runlock"}}
Step(t) == [threads EXCEPT ![t].pc = @ + 1]

TornCall(t, op) ==
    /\ threads[t].op = ""
    /\ threads[t].begun < MaxLockCalls
    /\ threads' = [threads EXCEPT ![t] = [op |-> op, pc |-> 1, begun |-> @.begun + 1]]
    /\ UNCHANGED <<d, heap, views, hist, now, rvars, mu>>

\* d.mu.Lock()
TornLock(t) ==
    /\ Stmt(t) = "lock"
    /\ mu = Nil /\ Readers = {}
    /\ mu' = t
    /\ threads' = Step(t)
    /\ UNCHANGED <<d, heap, views, hist, now, rvars>>

\* d.mu.RLock()
TornRLock(t) ==
    /\ Stmt(t) = "rlock"
    /\ mu = Nil
    /\ threads' = Step(t)
    /\ UNCHANGED <<d, heap, views, hist, now, rvars, mu>>

\* the statement of t between its Lock and its Unlock
TornStmt(t) ==
    /\ Stmt(t) \in {"put", "tag", "get", "has", "forget", "flush"}
    /\ Write(Collected(
             CASE Stmt(t) = "put" -> put(d, "k1", StringV("a"), 0).d
               [] Stmt(t) = "tag" -> addKeyTags(d, prefixKey(d, "k1"), views[2])
               [] Stmt(t) = "get" -> Get(d, "k1").d
               [] Stmt(t) = "has" -> d
               [] Stmt(t) = "forget" -> forget(d, "k1")
               [] Stmt(t) = "flush" -> FlushTags(d, <<"t1">>)),
             hist)
    /\ threads' = Step(t)
    /\ UNCHANGED <<now, rvars, mu>>

\* the deferred d.mu.Unlock() or d.mu.RUnlock()
TornUnlock(t) ==
    /\ Stmt(t) \in {"unlock", "runlock"}
    /\ mu' = IF Stmt(t) = "unlock" THEN Nil ELSE mu
    /\ threads' = Step(t)
    /\ UNCHANGED <<d, heap, views, hist, now, rvars>>

TornReturn(t) ==
    /\ threads[t].op # "" /\ Stmt(t) = "return"
    /\ threads' = [threads EXCEPT ![t].op = "", ![t].pc = 1]
    /\ UNCHANGED <<d, heap, views, hist, now, rvars, mu>>

InitTorn ==
    /\ d = NewDriver(DefaultConfig)
    /\ heap = FixedHeap
    /\ views = FixedViews
    /\ now = 0
    /\ hist = newHist
    /\ b = NoBreaker
    /\ calls = [c \in Callers |-> Idle]
    /\ store = [invoked |-> 0]
    /\ trace = NoTrace
    /\ mu = Nil
    /\ threads = [t \in Threads |-> Outside]
    /\ bg = NewBackground

NextTorn ==
    \/ \E t \in Threads, op \in TornOps : TornCall(t, op)
    \/ \E t \in Threads : TornLock(t)
    \/ \E t \in Threads : TornRLock(t)
    \/ \E t \in Threads : TornStmt(t)
    \/ \E t \in Threads : TornUnlock(t)
    \/ \E t \in Threads : TornReturn(t)

SpecTorn == InitTorn /\ [][NextTorn]_vars

(***************************************************************************)
(* SpecClose: the cleanup goroutine and Close, statement by statement.     *)
(* d.ticker.C holds at most one tick; d.done is unbuffered, so the send in *)
(* Close and the receive in cleanup's select are one step.                 *)
(***************************************************************************)
\* the runtime sends a tick; it is dropped when one is waiting already
TickerFire ==
    /\ bg.running
    /\ bg.tick = 0
    /\ bg' = [bg EXCEPT !.tick = 1]
    /\ UNCHANGED <<d, heap, views, hist, now, b, calls, store, trace, lvars>>

\* case <-d.ticker.C
CleanupTick ==
    /\ bg.cleanup = "select"
    /\ bg.tick = 1
    /\ bg' = [bg EXCEPT !.tick = 0, !.cleanup = "sweep",
                        !.late = @ \/ bg.close # "idle"]
    /\ UNCHANGED <<d, heap, views, hist, now, b, calls, store, trace, lvars>>

\* d.removeExpired()
CleanupSweep ==
    /\ bg.cleanup = "sweep"
    /\ Write(Collected(removeExpired(d)), HistDrop(HistCall(hist), HistExpired(hist)))
    /\ bg' = [bg EXCEPT !.cleanup = "select"]
    /\ UNCHANGED <<now, b, calls, store, trace, lvars>>

\* Close: d.ticker.Stop()
CloseStop ==
    /\ bg.close = "idle"
    /\ bg' = [bg EXCEPT !.running = FALSE, !.close = "send"]
    /\ UNCHANGED <<d, heap, views, hist, now, b, calls, store, trace, lvars>>

\* Close: d.done <- true, received by case <-d.done, after which cleanup
\* returns
CloseSend_NoWait ==
    /\ bg.close = "send"
    /\ bg' = [bg EXCEPT !.close = "close"]
    /\ UNCHANGED <<d, heap, views, hist, now, b, calls, store, trace, lvars>>

CloseSend ==
    /\ bg.close = "send"
    /\ bg.cleanup = "select"
    /\ bg' = [bg EXCEPT !.close = "close", !.cleanup = "returned"]
    /\ UNCHANGED <<d, heap, views, hist, now, b, calls, store, trace, lvars>>

\* Close: close(d.done); return nil
CloseDone ==
    /\ bg.close = "close"
    /\ bg' = [bg EXCEPT !.closed = TRUE, !.close = "returned"]
    /\ UNCHANGED <<d, heap, views, hist, now, b, calls, store, trace, lvars>>

InitClose == InitWith(NewDriver(DefaultConfig))

NextClose ==
    \/ \E k \in Keys2, ttl \in TTLs : DoPut(k, StringV("a"), ttl)
    \/ \E k \in Keys2 : DoGet(k)
    \/ Tick
    \/ TickerFire
    \/ CleanupTick
    \/ CleanupSweep
    \/ CloseStop
    \/ CloseSend
    \/ CloseDone

SpecClose == InitClose /\ [][NextClose]_vars

\* the steps of the cleanup goroutine and of Close that wait for nothing
\* but each other; a step of NextClose that leaves the sweep is CleanupSweep
Background ==
    \/ CleanupTick
    \/ bg.cleanup = "sweep" /\ bg' = [bg EXCEPT !.cleanup = "select"]
    \/ CloseSend
    \/ CloseDone

\* the scheduler runs the cleanup goroutine and the caller of Close
SpecCloseFair == SpecClose /\ WF_bg(Background)

(***************************************************************************)
(* SpecBreaker: one ThresholdBreaker called directly, as                   *)
(* TestThresholdBreaker does, for every threshold and reset timeout.       *)
(***************************************************************************)
mvars == <<d, heap, views, hist, mu, threads, bg>>

Elapse ==
    /\ now < MaxClock
    /\ now' = now + 1
    /\ UNCHANGED <<mvars, rvars>>

BreakerAllow ==
    /\ b' = Allow(b).b
    /\ trace' = [kind |-> "breaker", who |-> 0, op |-> "Allow", ret |-> Allow(b).ok,
                 prev |-> b, reached |-> store.invoked, at |-> now, since |-> trace.since]
    /\ UNCHANGED <<mvars, now, calls, store>>

BreakerSuccess ==
    /\ b' = Success(b)
    /\ trace' = [kind |-> "breaker", who |-> 0, op |-> "Success", ret |-> TRUE,
                 prev |-> b, reached |-> store.invoked, at |-> now, since |-> 0]
    /\ UNCHANGED <<mvars, now, calls, store>>

BreakerFailure_CountsOpen ==
    /\ trace.since < MaxFails
    /\ b' = IF b.state = StateOpen THEN [b EXCEPT !.failures = @ + 1] ELSE Failure(b)
    /\ trace' = [kind |-> "breaker", who |-> 0, op |-> "Failure", ret |-> TRUE,
                 prev |-> b, reached |-> store.invoked, at |-> now, since |-> trace.since + 1]
    /\ UNCHANGED <<mvars, now, calls, store>>

BreakerFailure ==
    /\ trace.since < MaxFails
    /\ b' = Failure(b)
    /\ trace' = [kind |-> "breaker", who |-> 0, op |-> "Failure", ret |-> TRUE,
                 prev |-> b, reached |-> store.invoked, at |-> now, since |-> trace.since + 1]
    /\ UNCHANGED <<mvars, now, calls, store>>

InitBreaker ==
    /\ d = NewDriver(DefaultConfig)
    /\ heap = FixedHeap
    /\ views = FixedViews
    /\ now = 0
    /\ hist = newHist
    /\ \E threshold \in 1..MaxThreshold, timeout \in 0..MaxTimeout :
          b = NewThresholdBreaker(threshold, timeout)
    /\ calls = [c \in Callers |-> Idle]
    /\ store = [invoked |-> 0]
    /\ trace = NoTrace
    /\ Unlocked

NextBreaker ==
    \/ BreakerAllow
    \/ BreakerSuccess
    \/ BreakerFailure
    \/ Elapse

SpecBreaker == InitBreaker /\ [][NextBreaker]_vars

(***************************************************************************)
(* SpecRecover: callers that go on calling through the breaker for ever.   *)
(* A call admitted before the breaker first opened may fail; one admitted  *)
(* later succeeds.  Only the time since the recorded failure matters to    *)
(* the breaker, so once the clock has reached MaxClock a tick moves the    *)
(* recorded time back instead of the clock forward.                        *)
(***************************************************************************)
NeverOpened(bb) == bb.lastFailureTime = ZeroTime

\* goroutine c calls Allow(); when admitted it goes on to the store
RecoverAllow(c, err) ==
    /\ calls[c].at = "idle"
    /\ err \in IF NeverOpened(b) THEN {NoErr, StoreErr} ELSE {NoErr}
    /\ b' = Allow(b).b
    /\ calls' = IF Allow(b).ok
                THEN [calls EXCEPT ![c] = [at |-> "report", op |-> "Get", err |-> err]]
                ELSE calls
    /\ UNCHANGED <<mvars, now, store, trace>>

\* the caller reports failures only
RecoverReport_Drops(c) ==
    /\ calls[c].at = "report"
    /\ b' = IF calls[c].err = StoreErr THEN Failure(b) ELSE b
    /\ calls' = [calls EXCEPT ![c] = Idle]
    /\ UNCHANGED <<mvars, now, store, trace>>

\* d.report(err), and the return
RecoverReport(c) ==
    /\ calls[c].at = "report"
    /\ b' = report(b, calls[c].err)
    /\ calls' = [calls EXCEPT ![c] = Idle]
    /\ UNCHANGED <<mvars, now, store, trace>>

\* one unit of time passes
Pass ==
    /\ IF now < MaxClock
       THEN now' = now + 1 /\ b' = b
       ELSE /\ now' = now
            /\ b' = [b EXCEPT !.lastFailureTime =
                        IF @ > ZeroTime + 1 THEN @ - 1 ELSE @]
    /\ UNCHANGED <<mvars, calls, store, trace>>

NextRecover ==
    \/ \E c \in Callers, err \in {NoErr, StoreErr} : RecoverAllow(c, err)
    \/ \E c \in Callers : RecoverReport(c)
    \/ Pass

SpecRecover == InitBreaker /\ [][NextRecover]_vars

\* time keeps advancing, callers keep calling, and a call that was admitted
\* reports and returns
SpecRecoverFair ==
    /\ SpecRecover
    /\ WF_vars(Pass)
    /\ WF_vars(\E c \in Callers, err \in {NoErr, StoreErr} : RecoverAllow(c, err))
    /\ \A c \in Callers : WF_vars(RecoverReport(c))

(***************************************************************************)
(* SpecRace: goroutines calling one ThresholdBreaker, statement by         *)
(* statement.  b.failures++ is a load and a store.  Beside the breaker     *)
(* runs a copy on which each call is applied in one step, at the moment    *)
(* the call writes.                                                        *)
(***************************************************************************)
Ready == [op |-> "", pc |-> "idle", tmp |-> 0, begun |-> 0]
BreakerOps == {"Allow", "Success", "Failure"}

\* goroutine t calls b.Allow(), b.Success() or b.Failure()
RaceCall(t, op) ==
    /\ threads[t].pc = "idle"
    /\ threads[t].begun < MaxLockCalls
    /\ threads' = [threads EXCEPT ![t] = [op |-> op, pc |-> "lock", tmp |-> 0,
                                          begun |-> @.begun + 1]]
    /\ UNCHANGED <<d, heap, views, hist, now, b, calls, store, trace, bg, mu>>

\* b.mu.Lock() without the wait
RaceLock_NoWait(t) ==
    /\ threads[t].pc = "lock"
    /\ mu' = t
    /\ threads' = [threads EXCEPT ![t].pc = IF threads[t].op = "Failure"
                                            THEN "load" ELSE "body"]
    /\ UNCHANGED <<d, heap, views, hist, now, b, calls, store, trace, bg>>

\* b.mu.Lock()
RaceLock(t) ==
    /\ threads[t].pc = "lock"
    /\ mu = Nil
    /\ mu' = t
    /\ threads' = [threads EXCEPT ![t].pc = IF threads[t].op = "Failure"
                                            THEN "load" ELSE "body"]
    /\ UNCHANGED <<d, heap, views, hist, now, b, calls, store, trace, bg>>

\* Failure: the read of b.failures in b.failures++
RaceLoad(t) ==
    /\ threads[t].pc = "load"
    /\ threads' = [threads EXCEPT ![t].pc = "store", ![t].tmp = b.failures]
    /\ UNCHANGED <<d, heap, views, hist, now, b, calls, store, trace, bg, mu>>

\* Failure: the write of b.failures++ and the statements after it
RaceStore(t) ==
    /\ threads[t].pc = "store"
    /\ b' = IF b.state = StateClosed
            THEN IF threads[t].tmp + 1 >= b.failureThreshold
                 THEN [b EXCEPT !.failures = threads[t].tmp + 1, !.state = StateOpen,
                                !.lastFailureTime = now]
                 ELSE [b EXCEPT !.failures = threads[t].tmp + 1]
            ELSE IF b.state = StateHalfOpen
                 THEN [b EXCEPT !.state = StateOpen, !.lastFailureTime = now]
                 ELSE b
    /\ trace' = [trace EXCEPT !.lin = Failure(@), !.n = @ + 1]
    /\ threads' = [threads EXCEPT ![t].pc = "unlock"]
    /\ UNCHANGED <<d, heap, views, hist, now, calls, store, bg, mu>>

\* the statements of Allow and of Success
RaceBody(t) ==
    /\ threads[t].pc = "body"
    /\ b' = IF threads[t].op = "Allow" THEN Allow(b).b ELSE Success(b)
    /\ trace' = [trace EXCEPT
                    !.lin = IF threads[t].op = "Allow" THEN Allow(@).b ELSE Success(@),
                    !.only = @ /\ threads[t].op = "Allow" /\ ~Allow(trace.lin).ok]
    /\ threads' = [threads EXCEPT ![t].pc = "unlock"]
    /\ UNCHANGED <<d, heap, views, hist, now, calls, store, bg, mu>>

\* the deferred b.mu.Unlock(), and the return
RaceUnlock(t) ==
    /\ threads[t].pc = "unlock"
    /\ mu' = Nil
    /\ threads' = [threads EXCEPT ![t].pc = "idle"]
    /\ UNCHANGED <<d, heap, views, hist, now, b, calls, store, trace, bg>>

InitRace ==
    /\ d = NewDriver(DefaultConfig)
    /\ heap = FixedHeap
    /\ views = FixedViews
    /\ now = 0
    /\ hist = newHist
    /\ \E threshold \in 1..MaxThreshold :
          /\ b = NewThresholdBreaker(threshold, MaxTimeout)
          /\ trace = [lin |-> NewThresholdBreaker(threshold, MaxTimeout),
                      n |-> 0, only |-> TRUE]
    /\ calls = [c \in Callers |-> Idle]
    /\ store = [invoked |-> 0]
    /\ mu = Nil
    /\ threads = [t \in Threads |-> Ready]
    /\ bg = NewBackground

NextRace ==
    \/ \E t \in Threads, op \in BreakerOps : RaceCall(t, op)
    \/ \E t \in Threads : RaceLock(t)
    \/ \E t \in Threads : RaceLoad(t)
    \/ \E t \in Threads : RaceStore(t)
    \/ \E t \in Threads : RaceBody(t)
    \/ \E t \in Threads : RaceUnlock(t)
    \/ Elapse

SpecRace == InitRace /\ [][NextRace]_vars

(***************************************************************************)
(* SpecWrapper: goroutines calling a CircuitBreakerDriver.  A wrapped      *)
(* method is three steps, Allow, the call on the embedded driver and       *)
(* report, each under its own lock, so calls interleave between them.      *)
(***************************************************************************)
CallAllow_Delegates(c, op) ==
    /\ calls[c].at = "idle"
    /\ b' = Allow(b).b
    /\ calls' = [calls EXCEPT ![c] = [at |-> "delegate", op |-> op, err |-> NoErr]]
    /\ trace' = [kind |-> IF Allow(b).ok THEN "allowed" ELSE "rejected",
                 who |-> c, op |-> op,
                 ret |-> IF Allow(b).ok THEN NoErr ELSE ErrCircuitOpen,
                 prev |-> b, reached |-> store.invoked, at |-> now,
                 since |-> trace.since]
    /\ UNCHANGED <<mvars, now, store>>

CallAllow(c, op) ==
    /\ calls[c].at = "idle"
    /\ b' = Allow(b).b
    /\ calls' = IF Allow(b).ok
                THEN [calls EXCEPT ![c] = [at |-> "delegate", op |-> op, err |-> NoErr]]
                ELSE calls
    /\ trace' = [kind |-> IF Allow(b).ok THEN "allowed" ELSE "rejected",
                 who |-> c, op |-> op,
                 ret |-> IF Allow(b).ok THEN NoErr ELSE ErrCircuitOpen,
                 prev |-> b, reached |-> store.invoked, at |-> now, since |-> trace.since]
    /\ UNCHANGED <<mvars, now, store>>

CallDelegate_Retries(c, err) ==
    /\ calls[c].at = "delegate"
    /\ err \in Outcomes(calls[c].op)
    /\ store.invoked < MaxCalls
    /\ store' = [store EXCEPT !.invoked = @ + (IF err = StoreErr THEN 2 ELSE 1)]
    /\ calls' = [calls EXCEPT ![c] = [at |-> "report", op |-> calls[c].op, err |-> err]]
    /\ trace' = [kind |-> "invoked", who |-> c, op |-> calls[c].op, ret |-> err,
                 prev |-> b, reached |-> store.invoked, at |-> now, since |-> trace.since]
    /\ UNCHANGED <<mvars, now, b>>

CallDelegate(c, err) ==
    /\ calls[c].at = "delegate"
    /\ err \in Outcomes(calls[c].op)
    /\ store.invoked < MaxCalls
    /\ store' = [store EXCEPT !.invoked = @ + 1]
    /\ calls' = [calls EXCEPT ![c] = [at |-> "report", op |-> calls[c].op, err |-> err]]
    /\ trace' = [kind |-> "invoked", who |-> c, op |-> calls[c].op, ret |-> err,
                 prev |-> b, reached |-> store.invoked, at |-> now, since |-> trace.since]
    /\ UNCHANGED <<mvars, now, b>>

CallReport_LateCloses(c) ==
    /\ calls[c].at = "report"
    /\ b' = IF b.state = StateOpen /\ calls[c].err \in {NoErr, NotFound}
            THEN [b EXCEPT !.state = StateClosed, !.failures = 0]
            ELSE report(b, calls[c].err)
    /\ calls' = [calls EXCEPT ![c] = Idle]
    /\ trace' = [kind |-> "returned", who |-> c, op |-> calls[c].op, ret |-> calls[c].err,
                 prev |-> b, reached |-> store.invoked, at |-> now, since |-> Since(calls[c].err)]
    /\ UNCHANGED <<mvars, now, store>>

CallReport(c) ==
    /\ calls[c].at = "report"
    /\ b' = report(b, calls[c].err)
    /\ calls' = [calls EXCEPT ![c] = Idle]
    /\ trace' = [kind |-> "returned", who |-> c, op |-> calls[c].op, ret |-> calls[c].err,
                 prev |-> b, reached |-> store.invoked, at |-> now, since |-> Since(calls[c].err)]
    /\ UNCHANGED <<mvars, now, store>>

\* a method CircuitBreakerDriver does not define runs on the embedded driver
CallPromoted(c, op, err) ==
    /\ calls[c].at = "idle"
    /\ store.invoked < MaxCalls
    /\ store' = [store EXCEPT !.invoked = @ + 1]
    /\ trace' = [kind |-> "promoted", who |-> c, op |-> op, ret |-> err,
                 prev |-> b, reached |-> store.invoked, at |-> now, since |-> trace.since]
    /\ UNCHANGED <<mvars, now, b, calls>>

InitWrapper ==
    /\ d = NewDriver(DefaultConfig)
    /\ heap = FixedHeap
    /\ views = FixedViews
    /\ now = 0
    /\ hist = newHist
    /\ b = NewThresholdBreaker(MaxThreshold, MaxTimeout)
    /\ calls = [c \in Callers |-> Idle]
    /\ store = [invoked |-> 0]
    /\ trace = NoTrace
    /\ Unlocked

NextWrapper ==
    \/ \E c \in Callers, op \in Wrapped : CallAllow(c, op)
    \/ \E c \in Callers, err \in {NoErr, NotFound, StoreErr} : CallDelegate(c, err)
    \/ \E c \in Callers : CallReport(c)
    \/ \E c \in Callers, op \in Promoted, err \in {NoErr, StoreErr} :
          CallPromoted(c, op, err)
    \/ Elapse

SpecWrapper == InitWrapper /\ [][NextWrapper]_vars


(***************************************************************************)
(* Contracts of the store                                                  *)
(***************************************************************************)
\* C1: round trip, last write wins.  For every key written and not since
\* evicted, forgotten or flushed, while its TTL has not elapsed, Get returns
\* the value of the most recent write with no error.
C1_RoundTrip ==
    \A k \in DOMAIN hist.written :
        HistFresh(k) => /\ Get(d, k).err = NoErr
                        /\ Get(d, k).val = hist.written[k].v

\* a key written twice: Get returns the second value
C1_Witness ==
    \E k \in DOMAIN hist.written :
        /\ hist.over = k
        /\ hist.written[k].v = StringV("bb")
        /\ Get(d, k).val = StringV("bb")

\* C5: TTL expiry is enforced on reads.  A key written with ttl > 0 is
\* returned by Get and reported by Has until the TTL has elapsed; after that
\* Get returns ErrKeyNotFound and Has returns false, swept or not; a key
\* written with ttl = 0 stays readable.
C5_LazyExpiry ==
    \A k \in DOMAIN hist.written :
        IF HistFresh(k)
        THEN Has(d, k) /\ Get(d, k).err = NoErr
        ELSE ~Has(d, k) /\ Get(d, k).err = NotFound /\ Get(d, k).val = NilValue

\* an expired item still in the item map (no sweep has run) reads as absent
C5_Witness ==
    \E k \in DOMAIN hist.written :
        /\ ~HistFresh(k)
        /\ k \in DOMAIN d.items
        /\ ~Has(d, k)
        /\ Get(d, k).err = NotFound

\* C2: with max_items = N > 0, once a call has completed the item map holds
\* at most N items.
C2_MaxItems ==
    d.config.MaxItems > 0 => Cardinality(DOMAIN d.items) <= d.config.MaxItems

\* C3: whenever a Put evicts, the evicted key is the stored key whose last
\* Put or successful Get is the oldest.
C3_LRUVictim ==
    \A i \in DOMAIN hist.ev : hist.ev[i].victim = hist.ev[i].oldest

\* C4: with max_bytes = B > 0 and metrics enabled, after every Put of
\* values no larger than B, stats().bytes_used <= B.
C4_ByteLimit ==
    d.config.MaxBytes > 0 => Stats(d).bytesUsed <= d.config.MaxBytes

\* the tags a flush names, and the keys it is to remove: those last put with
\* one of them
FlushedTags == Range(hist.flush.tags)
FlushScope == {k \in DOMAIN hist.flush.before : hist.flush.before[k] \cap FlushedTags # {}}

\* C6: FlushTags(T), and Flush on a view bound to T, removes exactly the
\* keys associated with a tag of T and leaves every other key stored with
\* its value.
C6_FlushScope ==
    hist.flush.tags # <<>> =>
        /\ DOMAIN d.items = (DOMAIN hist.flush.before) \ FlushScope
        /\ \A k \in DOMAIN d.items : d.items[k].Value = hist.written[k].v

\* C7: after every call the keys of the item map, the keys of the nodes of
\* the LRU list (one node each) and the keys of d.nodes are the same set.
C7_Structure ==
    /\ Range(listKeys(d.lru)) = DOMAIN d.items
    /\ Len(listKeys(d.lru)) = Cardinality(DOMAIN d.items)
    /\ DOMAIN d.nodes = DOMAIN d.items

\* C8: a key k is in the key set of tag T exactly when T is in the tag list
\* of k.
C8_TagIndex ==
    \A k \in Keys, t \in TagNames :
        (t \in DOMAIN d.tags /\ k \in d.tags[t]) <=>
        (k \in DOMAIN d.keyTags /\ t \in Range(sliceElems(heap, d.keyTags[k])))

\* C9: every key in the tag index is in the item map, and no tag is left
\* with an empty key set.
C9_NoDangling ==
    /\ \A t \in DOMAIN d.tags : d.tags[t] # {} /\ d.tags[t] \subseteq DOMAIN d.items
    /\ DOMAIN d.keyTags \subseteq DOMAIN d.items

\* C10: with metrics enabled, stats().item_count is the number of items in
\* the item map and stats().bytes_used the sum of their estimated sizes.
C10_Lockstep ==
    d.metrics # NoMetrics =>
        /\ Stats(d).itemCount = Cardinality(DOMAIN d.items)
        /\ Stats(d).bytesUsed = sumSizes(d.items, DOMAIN d.items)

\* C11: Forget and ForgetMultiple of a key that is not in the item map
\* leave the item map, the LRU list, d.nodes, the tag index and every
\* metrics counter as they were.
C11_IdempotentForget ==
    \A k \in Keys :
        k \notin DOMAIN d.items =>
            /\ forget(d, k) = d
            /\ ForgetMultiple(d, <<k>>) = d
            /\ ForgetMultiple(d, <<k, k>>) = d

\* an absent key whose node is still in the list, beside a stored tagged key
\* and counters that have moved
C11_Witness ==
    \E k \in Keys :
        /\ k \notin DOMAIN d.items
        /\ k \in Range(listKeys(d.lru))
        /\ DOMAIN d.items # {}
        /\ DOMAIN d.tags # {}
        /\ d.metrics # NoMetrics /\ d.metrics.sets > 1
        /\ forget(d, k) = d

\* the amounts a caller adds
Deltas == {0 - 1, 1, 2}
\* the number k counts from: its last written value when that is an int64
\* still in force, zero otherwise
HistCount(k) ==
    IF k \in DOMAIN hist.written /\ HistFresh(k) /\ hist.written[k].v.t = "int64"
    THEN hist.written[k].v.n ELSE 0

\* C18: Increment(k, delta) counts from zero when k is missing, expired or
\* not an int64, stores current + delta, returns it, and a Get that follows
\* returns the same value; Decrement(k, delta) is Increment(k, -delta).
C18_Increment ==
    \A k \in Keys2, delta \in Deltas :
        /\ Increment(d, k, delta).val = HistCount(k) + delta
        /\ Get(Increment(d, k, delta).d, k).err = NoErr
        /\ Get(Increment(d, k, delta).d, k).val = Int64V(HistCount(k) + delta)
        /\ Decrement(d, k, delta) = Increment(d, k, 0 - delta)

\* one key was just counted up from a string, the other holds an int64 that
\* has expired and is still in the item map
C18_Witness ==
    \E k \in Keys2, x \in Keys2 :
        /\ hist.over = k /\ hist.written[k].v = Int64V(1)
        /\ Increment(d, k, 1).val = 2
        /\ x \in DOMAIN d.items /\ d.items[x].Value = Int64V(1)
        /\ IsExpired(d.items[x])
        /\ Increment(d, x, 2).val = 2

\* Put called once per item, in the order the caller walks the map
RECURSIVE PutEach(_, _, _, _)
PutEach(dd, items, order, ttl) ==
    IF order = <<>> THEN dd
    ELSE PutEach(put(dd, Head(order), items[Head(order)], ttl).d,
                 items, Tail(order), ttl)

\* C19: the driver after PutMultiple(items, ttl) equals the driver after
\* Put(k, v, ttl) for each item in some order: the same item map, LRU nodes
\* and recency order, evictions and metrics.
C19_PutMultipleAsPut ==
    \A items \in ItemMaps(Keys2, {StringV("a")}), ttl \in TTLs :
        \E order \in Orders(items) :
            PutMultiple(d, items, ttl) = PutEach(d, items, order, ttl)

\* C20: a Get of a key whose item has expired removes the item from the item
\* map, with its LRU node and its tag list.
C20_LazyDiscard ==
    \A k \in Keys :
        (prefixKey(d, k) \in DOMAIN d.items /\ IsExpired(d.items[prefixKey(d, k)]))
            => /\ Get(d, k).err = NotFound
               /\ prefixKey(d, k) \notin DOMAIN Get(d, k).d.items
               /\ prefixKey(d, k) \notin DOMAIN Get(d, k).d.nodes
               /\ prefixKey(d, k) \notin DOMAIN Get(d, k).d.keyTags

(***************************************************************************)
(* Contracts of the circuit breaker                                        *)
(***************************************************************************)
\* n Failure() reports in a row
RECURSIVE Fail(_, _)
Fail(bb, n) == IF n = 0 THEN bb ELSE Failure(Fail(bb, n - 1))

\* C12: a Closed breaker has seen fewer than failure_threshold failures
\* since the last success (or the start), counts exactly those, and allows;
\* the Failure() that brings the count to the threshold opens it at the time
\* of that report, a Failure() below the threshold leaves it Closed, a
\* Success() in Closed resets the count, and an Open breaker refuses while
\* the reset timeout has not elapsed, whatever is reported meanwhile.
C12_TripThreshold ==
    /\ b.state = StateClosed =>
          /\ trace.since < b.failureThreshold
          /\ b.failures = trace.since
          /\ Allow(b).ok /\ Allow(b).b = b
    /\ (trace.op = "Failure" /\ trace.prev.state = StateClosed) =>
          IF trace.since = b.failureThreshold
          THEN b.state = StateOpen /\ b.lastFailureTime = trace.at
          ELSE b.state = StateClosed
    /\ (trace.op = "Success" /\ trace.prev.state = StateClosed) =>
          b.state = StateClosed /\ b.failures = 0
    /\ (b.state = StateOpen /\ now - b.lastFailureTime <= b.resetTimeout) =>
          ~Allow(b).ok /\ Allow(b).b = b
    /\ (trace.kind = "breaker" /\ trace.prev.state = StateOpen /\ ~trace.ret) =>
          b = trace.prev
    /\ (trace.op \in {"Success", "Failure"} /\ trace.prev.state = StateOpen) =>
          b = trace.prev

\* the second of two failures in a row has just opened a breaker of
\* threshold 2, and one time unit of its timeout of one has passed
C12_Witness ==
    /\ trace.op = "Failure" /\ trace.prev.state = StateClosed
    /\ trace.prev.failures = 1 /\ trace.since = 2
    /\ b.failureThreshold = 2 /\ b.resetTimeout = 1
    /\ b.state = StateOpen
    /\ now = trace.at + 1
    /\ ~Allow(b).ok

C14_Reopen ==
    (trace.op = "Failure" /\ trace.prev.state = StateHalfOpen) =>
        /\ b.state = StateOpen
        /\ b.lastFailureTime = trace.at
        /\ Allow(b).ok <=> (now - trace.at > b.resetTimeout)

\* the probe failed later than the first trip, and the time since the first
\* trip exceeds the timeout while the time since the probe does not
C14_Witness ==
    /\ trace.op = "Failure" /\ trace.prev.state = StateHalfOpen
    /\ b.resetTimeout = 1
    /\ trace.at > trace.prev.lastFailureTime
    /\ now = trace.at + 1
    /\ now - trace.prev.lastFailureTime > b.resetTimeout
    /\ b.state = StateOpen /\ ~Allow(b).ok

(***************************************************************************)
(* Contracts of the CircuitBreakerDriver                                   *)
(***************************************************************************)
\* the last event was the start of a call of op through the wrapper
Called(op) ==
    trace.op = op /\ trace.kind \in {"allowed", "rejected", "promoted"}
\* the breaker was Open, its timeout not elapsed, when the last event began
WasOpen ==
    /\ trace.prev.state = StateOpen
    /\ trace.at - trace.prev.lastFailureTime <= trace.prev.resetTimeout

\* C15: a Get, Put, Forget or Flush that the breaker does not allow returns
\* ErrCircuitOpen, leaves the wrapped store uncalled and the breaker as it
\* was, and no report follows it: the caller is back outside the method.
C15_FastFail ==
    /\ \A op \in Wrapped :
          (Called(op) /\ WasOpen) =>
              /\ trace.kind = "rejected"
              /\ trace.ret = ErrCircuitOpen
    /\ trace.kind = "rejected" =>
          /\ trace.op \in Wrapped
          /\ trace.ret = ErrCircuitOpen
          /\ store.invoked = trace.reached
          /\ b = trace.prev
          /\ calls[trace.who] = Idle

\* the two failing calls that opened the breaker are the only ones that
\* reached the store, and a Put has just been refused
C15_Witness ==
    /\ trace.kind = "rejected" /\ trace.op = "Put"
    /\ trace.ret = ErrCircuitOpen
    /\ b.state = StateOpen /\ b.failures = 2
    /\ store.invoked = 2
    /\ \A c \in Callers : calls[c].at = "idle"

\* C16: while the breaker is Open and its timeout has not elapsed, a call of
\* any method of the store contract through the wrapper returns
\* ErrCircuitOpen and does not reach the wrapped store.
C16_GuardsAll ==
    \A op \in Wrapped \cup Promoted :
        (Called(op) /\ WasOpen) =>
            /\ trace.ret = ErrCircuitOpen
            /\ store.invoked = trace.reached

\* C17: a call the store answered with nil or ErrKeyNotFound is reported as
\* a success, so a Closed breaker stays Closed with its count at 0; a call
\* the store answered with another error is reported as one failure, so a
\* Closed breaker counts one more; only a Get is answered ErrKeyNotFound.
C17_NotFoundIsSuccess ==
    /\ (trace.kind = "returned" /\ trace.ret \in {NoErr, NotFound}) =>
          /\ b = Success(trace.prev)
          /\ trace.prev.state = StateClosed =>
                b.state = StateClosed /\ b.failures = 0
    /\ (trace.kind = "returned" /\ trace.ret \notin {NoErr, NotFound}) =>
          /\ trace.prev.state = StateClosed =>
                /\ b.failures = trace.prev.failures + 1
                /\ b.state = IF b.failures >= b.failureThreshold
                              THEN StateOpen ELSE StateClosed
          /\ trace.prev.state = StateHalfOpen =>
                b.state = StateOpen /\ b.lastFailureTime = trace.at
          /\ trace.prev.state = StateOpen => b = trace.prev
    /\ trace.kind = "returned" => store.invoked = trace.reached
    /\ \A c \in Callers :
          (calls[c].at = "report" /\ calls[c].err = NotFound) => calls[c].op = "Get"

\* a Get answered ErrKeyNotFound has just been reported to a Closed breaker
\* that had counted one failure
C17_Witness ==
    /\ trace.kind = "returned" /\ trace.op = "Get" /\ trace.ret = NotFound
    /\ trace.prev.state = StateClosed /\ trace.prev.failures = 1
    /\ b.state = StateClosed /\ b.failures = 0

(***************************************************************************)
(* Contracts of the metrics                                                *)
(***************************************************************************)
\* C21: with metrics on, hits counts the Gets of a stored unexpired key and
\* misses counts the other Gets; a Get adds one to hits and nothing to misses
\* when it returns a value, and one to misses and nothing to hits otherwise;
\* hit_rate is hits / (hits + misses), and 0 when there was no Get.
C21_HitMiss ==
    /\ Stats(d).hits = hist.found
    /\ Stats(d).misses = hist.absent
    /\ \A k \in Keys :
          /\ Stats(Get(d, k).d).hits + Stats(Get(d, k).d).misses
                = Stats(d).hits + Stats(d).misses + 1
          /\ Stats(Get(d, k).d).hits =
                Stats(d).hits + (IF Get(d, k).err = NoErr THEN 1 ELSE 0)
          /\ [Get(d, k).d EXCEPT !.metrics = d.metrics, !.lru = d.lru] = d
    /\ hist.found + hist.absent = 0 => HitRate(Stats(d)) = ZeroRate
    /\ hist.found + hist.absent > 0 =>
          /\ HitRate(Stats(d)).den > 0
          /\ HitRate(Stats(d)).num * (hist.found + hist.absent)
                = hist.found * HitRate(Stats(d)).den

\* three hits and one miss, of an expired key still stored: 0.75
C21_Witness ==
    /\ hist.found = 3 /\ hist.absent = 1
    /\ Stats(d).hits = 3 /\ Stats(d).misses = 1
    /\ HitRate(Stats(d)) = [num |-> 3, den |-> 4]
    /\ \E k \in Keys2 : k \in DOMAIN d.items /\ IsExpired(d.items[k])

(***************************************************************************)
(* Contracts of the lock                                                   *)
(***************************************************************************)
\* a goroutine waits for a lock it holds itself
SelfDeadlock == \E t \in Threads : At(t, "lock") /\ mu = t
\* the lock is taken once in a call and held over the statements between
LockedOnce ==
    \A t \in Threads :
        /\ threads[t].locks <= 1
        /\ (At(t, "body") \/ At(t, "unlock")) => mu = t /\ threads[t].locks = 1
        /\ (threads[t].stack = <<>> /\ threads[t].begun > 0) =>
              mu # t /\ threads[t].locks = 1

\* C22: a call of taggedCache.Put, PutMultiple, Forever or Flush takes d.mu
\* once, runs its statements holding it and never waits for a lock it holds,
\* and with any goroutines calling tagged Puts and FlushTags at once every
\* call returns.
C22_NoSelfDeadlock ==
    /\ [](~SelfDeadlock /\ LockedOnce)
    /\ \A t \in Threads : (threads[t].stack # <<>>) ~> (threads[t].stack = <<>>)

\* one goroutine is inside Put called by Forever and holds the lock, the
\* other waits for it inside FlushTags called by Flush
C22_Witness ==
    \E t \in Threads, u \in Threads :
        /\ mu = t /\ At(t, "body")
        /\ Len(threads[t].stack) = 2 /\ threads[t].stack[1].m = "taggedCache.Forever"
        /\ At(u, "lock")
        /\ Len(threads[u].stack) = 2 /\ threads[u].stack[1].m = "taggedCache.Flush"

(***************************************************************************)
(* Contracts of the expiry manager                                         *)
(***************************************************************************)
\* C23: once Close has been called the ticker is stopped; Close returns only
\* after cleanup has taken the stop signal, so once Close has returned the
\* loop has ended and no sweep starts; and a call of Close does return and
\* the loop does end.
C23_CloseStops ==
    /\ [](bg.close # "idle" => ~bg.running)
    /\ [](bg.close \in {"close", "returned"} => bg.cleanup = "returned")
    /\ [](bg.closed => bg.close = "returned")
    /\ [][bg.cleanup = "returned" => bg'.cleanup = "returned"]_vars
    /\ (bg.close # "idle") ~> (bg.close = "returned" /\ bg.cleanup = "returned")

\* Close has returned; before it did, cleanup took a tick that was waiting
\* and swept, and a later tick was never sent
C23_Witness ==
    /\ bg.close = "returned" /\ bg.cleanup = "returned"
    /\ bg.late
    /\ bg.tick = 0 /\ ~bg.running
    /\ DOMAIN d.items # {}

(***************************************************************************)
(* Contracts of the breaker under concurrent callers                       *)
(***************************************************************************)
\* C24: under every interleaving of concurrent Allow, Success and Failure
\* calls the breaker is, whenever no call holds it, what the calls applied
\* one at a time give; its count never exceeds the threshold; and when only
\* Failure has been reported, n times from the start, and every call has
\* returned, the count is min(n, threshold) and the state is Open iff
\* n >= threshold.
C24_AtomicCalls ==
    /\ mu = Nil => b = trace.lin
    /\ b.failures <= b.failureThreshold
    /\ (trace.only /\ \A t \in Threads : threads[t].pc = "idle") =>
          /\ b.failures = Min({trace.n, b.failureThreshold})
          /\ b.state = StateOpen <=> trace.n >= b.failureThreshold

\* three Failure calls and nothing else have returned on a breaker of
\* threshold 2: count 2, Open
C24_Witness ==
    /\ trace.only /\ trace.n = 3
    /\ \A t \in Threads : threads[t].pc = "idle"
    /\ b.failureThreshold = 2 /\ b.failures = 2 /\ b.state = StateOpen

(***************************************************************************)
(* Contracts of the size limits                                            *)
(***************************************************************************)
\* C25: under each of the eviction policies "lru", "lfu" and "fifo", with
\* max_items set, the store never holds more than max_items items.
C25_PolicyLimit ==
    d.config.EvictionPolicy \in Policies =>
        Cardinality(DOMAIN d.items) <= d.config.MaxItems

\* the store holds nothing: no key is present, and the item map, the
\* eviction index and both directions of the tag index are empty
Emptied(dd) ==
    /\ \A k \in Keys : ~Has(dd, k) /\ Get(dd, k).err = NotFound
    /\ dd.items = EmptyMap
    /\ dd.nodes = EmptyMap /\ listNodes(dd.lru) = <<>> /\ dd.lru.size = 0
    /\ dd.tags = EmptyMap /\ dd.keyTags = EmptyMap

C27_ReplaceKeeps ==
    \A k \in Keys, v \in PutValues :
        prefixKey(d, k) \in DOMAIN d.items =>
            prefixKey(d, k) \notin Range(put(d, k, v, 0).ev)

\* C28: with max_bytes set, after any Puts, Gets and Forgets, when the
\* eviction a Put runs ends with the bytes in use plus the size change
\* still above max_bytes, the item map and the eviction index are empty.
C28_LoopUntilEmpty ==
    d.config.MaxBytes > 0 =>
        \A k \in Keys, v \in PutValues :
            LET r == evictIfNeeded(d, sizeChange(d, k, v))
            IN (/\ sizeChange(d, k, v) > 0
                /\ currentBytes(r.d) + sizeChange(d, k, v) > d.config.MaxBytes)
               => r.d.items = EmptyMap /\ listNodes(r.d.lru) = <<>>

\* C29: a Put of a new key whose value alone is larger than max_bytes
\* evicts every other item and stores the new one, which Get then returns;
\* bytes_used is then the size of that item.
C29_OversizedAccepted ==
    d.config.MaxBytes > 0 =>
        \A k \in Keys, v \in PutValues :
            (prefixKey(d, k) \notin DOMAIN d.items /\ estimateSize(v) > d.config.MaxBytes)
            => LET r == put(d, k, v, 0)
               IN /\ DOMAIN r.d.items = {prefixKey(d, k)}
                  /\ Get(r.d, k).err = NoErr /\ Get(r.d, k).val = v
                  /\ r.d.metrics # NoMetrics => Stats(r.d).bytesUsed = estimateSize(v)

\* C30: one run of removeExpired removes every expired item from the item
\* map, from the eviction index (the key-to-node map and the list) and from
\* both directions of the tag index, and leaves every other item with its
\* tags and the order of the other keys in the list as they were.
C30_SweepEffect ==
    LET s == removeExpired(d)
        gone == expiredKeys(d)
    IN /\ DOMAIN s.items = (DOMAIN d.items) \ gone
       /\ \A k \in DOMAIN s.items : s.items[k] = d.items[k]
       /\ DOMAIN s.nodes = (DOMAIN d.nodes) \ gone
       /\ \A k \in gone : k \notin Range(listKeys(s.lru))
       /\ SeqWithout(listKeys(s.lru), gone) = SeqWithout(listKeys(d.lru), gone)
       /\ DOMAIN s.keyTags = (DOMAIN d.keyTags) \ gone
       /\ \A k \in DOMAIN s.keyTags : s.keyTags[k] = d.keyTags[k]
       /\ \A t \in DOMAIN s.tags : s.tags[t] \cap gone = {}

(***************************************************************************)
(* Contracts of the LRU list                                               *)
(***************************************************************************)
Reverse(sq) == [i \in 1..Len(sq) |-> sq[Len(sq) + 1 - i]]

\* C31: after any sequence of addToFront, moveToFront, remove, removeLast
\* and clear the list is a proper doubly-linked chain: head.prev and
\* tail.next are nil, a.next = b iff b.prev = a for the linked nodes, the
\* traversal from the head is the reverse of the traversal from the tail,
\* size is the number of linked nodes, and head and tail are nil iff the
\* list is empty.
C31_WellFormed ==
    LET l == d.lru
        fwd == listNodes(l)
        linked == Range(fwd)
    IN /\ l.head # Nil => l.head \in DOMAIN l.mem /\ l.mem[l.head].prev = Nil
       /\ l.tail # Nil => l.tail \in DOMAIN l.mem /\ l.mem[l.tail].next = Nil
       /\ \A a \in linked, c \in linked : l.mem[a].next = c <=> l.mem[c].prev = a
       /\ Cardinality(linked) = Len(fwd)
       /\ fwd = Reverse(listNodesBack(l))
       /\ l.size = Len(fwd)
       /\ (l.head = Nil) <=> (l.size = 0)
       /\ (l.tail = Nil) <=> (l.size = 0)

\* a list of four nodes with a key held twice, after a node behind the
\* head was moved to the front
C31_Witness ==
    /\ Len(listNodes(d.lru)) = MaxList
    /\ \E i \in 1..MaxList, j \in 1..MaxList : i # j /\ listKeys(d.lru)[i] = listKeys(d.lru)[j]
    /\ hist.op = "moveToFront"
    /\ C31_WellFormed

\* C32: the keys from head to tail are the reference sequence obtained by
\* prepend, move to front, delete and drop last; moveToFront of the head
\* changes nothing; removeLast returns the last key of the reference
\* sequence, and "" with no change on an empty list.
C32_Reference ==
    /\ [](listKeys(d.lru) = hist.ref)
    /\ [][/\ hist'.op = "moveToFront head" => d'.lru = d.lru
          /\ hist'.op = "removeLast" => hist'.ret = hist.ref[Len(hist.ref)]
          /\ hist'.op = "removeLast empty" => hist'.ret = "" /\ d'.lru = d.lru]_vars

\* removeLast has just returned k1 from a list that keeps three keys
C32_Witness ==
    /\ hist.op = "removeLast" /\ hist.ret = "k1"
    /\ listKeys(d.lru) = <<"k3", "k2", "k3">>

(***************************************************************************)
(* Contracts of the tagged views, second part                              *)
(***************************************************************************)
\* C33: after a Put of k through a view bound to the tag list S, empty or
\* not, the tags recorded for k are exactly S and k is in the key set of a
\* tag exactly when the tag is in S, whatever tags k had before.
C33_TagsReplaced ==
    \A i \in 1..Len(views), k \in Keys2, v \in PutValues :
        LET r == taggedPut(d, views[i], k, v, 0).d
            S == sliceElems(heap, views[i])
            key == prefixKey(d, k)
        IN /\ (IF key \in DOMAIN r.keyTags
               THEN sliceElems(heap, r.keyTags[key]) ELSE <<>>) = S
           /\ \A T \in TagNames :
                 (T \in DOMAIN r.tags /\ key \in r.tags[T]) <=> T \in Range(S)

(***************************************************************************)
(* Contracts of the circuit breaker, second part                           *)
(***************************************************************************)
\* C34: an Open breaker allows the call and becomes HalfOpen as soon as the
\* time since the recorded failure is at least the reset timeout, exactly
\* equal included; while it is less, Allow() returns false and the breaker
\* stays Open.
C34_TimeoutBoundary ==
    b.state = StateOpen =>
        IF now - b.lastFailureTime >= b.resetTimeout
        THEN Allow(b).ok /\ Allow(b).b.state = StateHalfOpen
        ELSE ~Allow(b).ok /\ Allow(b).b = b

\* C35: a Get, Put, Forget or Flush that the breaker allows invokes the
\* wrapped store exactly once, returns the store's error unchanged and
\* reports one outcome to the breaker: Failure iff the error is neither nil
\* nor ErrKeyNotFound, Success otherwise.  Nothing else invokes the store
\* through a wrapped method or reports to the breaker.
C35_PassThrough ==
    [][/\ \A c \in Callers :
            /\ (calls[c].at = "idle" /\ calls'[c] # calls[c]) =>
                  /\ Allow(b).ok /\ calls[c].op = "" /\ calls'[c].op \in Wrapped
                  /\ calls'[c].at = "delegate" /\ store' = store
            /\ (calls[c].at = "delegate" /\ calls'[c] # calls[c]) =>
                  /\ calls'[c].at = "report" /\ calls'[c].op = calls[c].op
                  /\ store'.invoked = store.invoked + 1
                  /\ b' = b
            /\ (calls[c].at = "report" /\ calls'[c] # calls[c]) =>
                  /\ calls'[c] = Idle /\ store' = store
                  /\ trace'.kind = "returned" /\ trace'.ret = calls[c].err
                  /\ b' = IF calls[c].err \notin {NoErr, NotFound}
                          THEN Failure(b) ELSE Success(b)
       /\ store' # store =>
             \/ trace'.kind = "promoted"
             \/ Cardinality({c \in Callers : calls[c].at = "delegate"
                                              /\ calls'[c].at = "report"}) = 1
       /\ (b' # b /\ calls' = calls) => trace'.kind = "rejected" \/ now' # now]_vars

\* both callers were allowed; one has returned a store error, which the
\* breaker counted, while the other still holds ErrKeyNotFound to report
C35_Witness ==
    /\ trace.kind = "returned" /\ trace.ret = StoreErr
    /\ b.failures = 1 /\ b.state = StateClosed
    /\ store.invoked = 2
    /\ \E c \in Callers : calls[c].at = "report" /\ calls[c].err = NotFound

(***************************************************************************)
(* Contracts of the tagged Put under concurrent callers                    *)
(***************************************************************************)
\* k1 is stored without its tag t1
Torn ==
    /\ "k1" \in DOMAIN d.items
    /\ ~("t1" \in DOMAIN d.tags /\ "k1" \in d.tags["t1"]
          /\ "k1" \in DOMAIN d.keyTags /\ sliceElems(heap, d.keyTags["k1"]) = <<"t1">>)

\* C36: a tagged Put of k1 bound to t1 inserts and tags under one lock: k1
\* is stored without t1 only while the putting goroutine holds the write
\* lock between d.put and d.addKeyTags, no Get, Has, Forget or FlushTags of
\* another goroutine runs its statement then, and once every call has
\* returned k1 is absent or stored and tagged t1.
C36_PutAtomic ==
    /\ [](Torn => /\ mu \in Threads /\ Stmt(mu) = "tag" /\ Readers = {})
    /\ [][\A t \in Threads :
            (Stmt(t) \in {"get", "has", "forget", "flush"} /\ threads'[t] # threads[t])
                => ~Torn]_vars
    /\ []((\A t \in Threads : threads[t].op = "") => ~Torn)

\* a tagged Put and a FlushTags ran at once: the Put holds the lock between
\* its two statements while the FlushTags waits for it
C36_Witness ==
    \E t \in Threads, u \in Threads :
        /\ mu = t /\ Stmt(t) = "tag" /\ Torn
        /\ threads[u].op = "Driver.FlushTags" /\ Stmt(u) = "lock"

(***************************************************************************)
(* Contracts of the size limits, second part                               *)
(***************************************************************************)
\* C37: a Put of a new key into a store holding max_items items evicts
\* exactly one item before it inserts, whatever the estimated size of the
\* new value, 0 for the empty string included.
C37_EvictsOne ==
    (d.config.MaxItems > 0 /\ Cardinality(DOMAIN d.items) = d.config.MaxItems) =>
        \A k \in Keys, v \in EmptyValues :
            prefixKey(d, k) \notin DOMAIN d.items =>
                /\ Len(put(d, k, v, 0).ev) = 1
                /\ Cardinality(DOMAIN put(d, k, v, 0).d.items) = d.config.MaxItems

(***************************************************************************)
(* Contracts of the circuit breaker, third part                            *)
(***************************************************************************)
\* C38: Success() and Failure() in state Open change nothing: the state,
\* the failure count and the recorded failure time stay, so the report of a
\* call that was admitted before the breaker opened neither closes the
\* breaker nor moves the failure time.
C38_LateReports ==
    /\ [](b.state = StateOpen => Success(b) = b /\ Failure(b) = b)
    /\ [][\A c \in Callers :
            (b.state = StateOpen /\ calls[c].at = "report" /\ calls'[c] = Idle)
                => b' = b]_vars

\* a call admitted while Closed has just reported its success to a breaker
\* that another caller's failure had opened earlier; the breaker is still
\* Open with the failure time of that failure
C38_Witness ==
    /\ trace.kind = "returned" /\ trace.ret = NoErr
    /\ trace.prev.state = StateOpen
    /\ b.state = StateOpen /\ b.failures = b.failureThreshold
    /\ b.lastFailureTime < trace.at

\* C39: for a threshold T >= 1 the failure count is always within 0..T,
\* below T while Closed and equal to T while Open or HalfOpen; the breaker
\* starts Closed and its state changes only from Closed to Open, from Open
\* to HalfOpen, and from HalfOpen to Closed or to Open.
C39_StateMachine ==
    /\ b.state = StateClosed /\ b.failures = 0
    /\ [](/\ b.state \in {StateClosed, StateOpen, StateHalfOpen}
          /\ b.failures \in 0..b.failureThreshold
          /\ b.state = StateClosed => b.failures < b.failureThreshold
          /\ b.state \in {StateOpen, StateHalfOpen} => b.failures = b.failureThreshold)
    /\ [][b'.state # b.state =>
            <<b.state, b'.state>> \in {<<StateClosed, StateOpen>>,
                                      <<StateOpen, StateHalfOpen>>,
                                      <<StateHalfOpen, StateClosed>>,
                                      <<StateHalfOpen, StateOpen>>}]_vars

\* a breaker of threshold 2 is Open for the second time: it went from
\* HalfOpen back to Open on a failed probe, with the count still 2
C39_Witness ==
    /\ b.failureThreshold = 2 /\ b.failures = 2
    /\ b.state = StateOpen
    /\ trace.op = "Failure" /\ trace.prev.state = StateHalfOpen
    /\ trace.prev.failures = 2

\* C40: when time keeps advancing, callers keep invoking Allow() and every
\* call admitted once the breaker has opened reports Success(), an Open
\* breaker becomes Closed, and in the end it stays Closed and Allow()
\* returns true.
C40_Recovers ==
    /\ (b.state = StateOpen) ~> (b.state = StateClosed)
    /\ <>[](b.state = StateClosed /\ Allow(b).ok)

\* the breaker has closed again after having been Open, and nobody holds a
\* report
C40_Witness ==
    /\ ~NeverOpened(b) /\ b.resetTimeout = 1
    /\ b.state = StateClosed /\ b.failures = 0
    /\ \A c \in Callers : calls[c].at = "idle"

====
